---- MODULE Spec2Model ----
(***************************************************************************)
(* A model of the pixelflow event delivery pipeline:                       *)
(*   - the duplicate suppressor   (src/lib/rate-limit.ts checkDuplication) *)
(*   - the admission controller   (src/lib/rate-limit.ts checkRateLimit)   *)
(*   - the delivery queue, worker and platform fan-out                     *)
(*       (lib/queue/event-queue.ts = src/unnamed/part_004,                 *)
(*        src/lib/services/pixel-sender.ts)                                *)
(*   - the ingestion endpoint POST /api/track                              *)
(*       (src/app/how-it-works/page.tsx)                                   *)
(*   - the worker process under shutdown signals                           *)
(*       (src/unnamed/part_002, src/unnamed/part_004)                      *)
(*   - the pure functions: event fingerprint, identity hashes, event names *)
(*       (src/lib/crypto.ts, src/lib/event-mapping.ts)                     *)
(*   - the webhook endpoint POST /api/webhooks/whop                        *)
(*       (src/app/api/webhooks/whop/route.ts)                              *)
(*   - the offline queue of the browser tracker (src/unnamed/part_000)     *)
(* Each component has its own specification over the shared variables;     *)
(* the variables of the other components stay at their initial values.     *)
(***************************************************************************)
EXTENDS Integers, Sequences, FiniteSets, TLC

VARIABLES
    \* ---- environment shared by the Redis-backed primitives
    now,            \* wall clock, milliseconds (Date.now())
    ticks,          \* number of clock advances so far (bounds the run)
    redisUp,        \* whether a Redis command issued now is answered
    outages,        \* number of times the store became unreachable (bounds the run)
    envRedisUrl,    \* process.env.REDIS_URL is set
    \* ---- duplicate suppressor
    dedupKeys,      \* Redis: key "dedup:<id>" -> expiry instant in ms, 0 = absent
    dedupInflight,  \* fingerprint -> number of callers whose SET for it is on the wire
    dedupLog,       \* history: the checkDuplication calls that returned or raised
    \* ---- admission controller
    rlZset,         \* Redis: sorted set "rate-limit:<identifier>": set of <<score, member>>
    rlKeyExpiry,    \* Redis: expiry instant of that key in ms, 0 = no TTL
    rlPc,           \* caller -> position inside checkRateLimit
    rlLocal,        \* caller -> the locals of its call (now, count) and what it returned
    rlNextMember,   \* source of fresh sorted-set members (`${now}-${Math.random()}`)
    rlLog,          \* history: the checkRateLimit calls that returned
    \* ---- event record store (prisma), one merchant
    pixelConfigs,   \* the merchant's PixelConfig rows: config id -> row
    evStatus,       \* event -> trackingEvent.status
    evRetryCount,   \* event -> trackingEvent.retryCount
    evPlatform,     \* event -> platform -> facebookStatus / tiktokStatus ("null" at creation)
    evSentAt,       \* event -> platform -> facebookSentAt / tiktokSentAt in ms (0 = null)
    evLog,          \* event -> platforms with an eventLog entry of level info for the event
    dbFaults,       \* number of record-store operations that threw (bounds the run)
    \* ---- delivery queue (BullMQ) and workers
    job,            \* job id -> the job with that id: event, state, attemptsMade, stalled
    run,            \* worker -> the job it is processing and its position in the processor
    manualRetries,  \* number of retryFailedJobs() calls (bounds the run)
    wproc,          \* worker -> its process: running, closing (signal received), closed, exited
    heldAtSignal,   \* history: worker -> the job it had in flight when the signal came
    \* ---- history of the deliveries
    lastAttempt,    \* event -> summary of its last finished attempt
    evAttempts,     \* event -> number of finished attempts
    evFailedAttempts, \* event -> number of finished attempts in which a sender raised or that threw
    evThrown,       \* event -> number of finished attempts in which the processor threw
    reinvoked,      \* event -> configs whose sender was invoked after a recorded success
    everSucceeded,  \* event -> platforms for which a success was recorded
    requeued,       \* event -> queueEvent was called for it while its job was outstanding
    \* ---- one sender invocation followed on its own
    sx,             \* the config it has, its position, the response it got, what it wrote
    \* ---- ingestion endpoint POST /api/track, one merchant
    tr,             \* request -> its position in the handler, its body, what it did so far
    trLog,          \* history: the answered submissions, with their response and effects
    monthlyEventCount,  \* merchant.monthlyEventCount
    monthlyEventLimit,  \* merchant.monthlyEventLimit (-1 = unlimited)
    evEventId,      \* event -> trackingEvent.eventId, the dedup fingerprint ("none" if absent)
    \* ---- webhook endpoint POST /api/webhooks/whop
    wh,             \* the request being handled, and the log of the answered ones
    \* ---- browser tracker (public/pixel.js)
    bq,             \* localStorage queue, process() loop, requests on the wire
    \* ---- one pure function followed on its own
    fx              \* its arguments as the callers hold them, its results, what was made of them

envVars   == <<now, ticks, redisUp, outages, envRedisUrl>>
dedupVars == <<dedupKeys, dedupInflight, dedupLog>>
rlVars    == <<rlZset, rlKeyExpiry, rlPc, rlLocal, rlNextMember, rlLog>>
dbVars    == <<pixelConfigs, evStatus, evRetryCount, evPlatform, evSentAt, evLog, dbFaults>>
queueVars == <<job, run, manualRetries>>
histVars  == <<lastAttempt, evAttempts, evFailedAttempts, evThrown, reinvoked, everSucceeded,
               requeued>>
sndVars   == <<sx>>
trVars    == <<tr, trLog, monthlyEventCount, monthlyEventLimit, evEventId>>
fnVars    == <<fx>>
procVars  == <<wproc, heldAtSignal>>
extVars   == <<wh, bq>>
wkVars    == <<dbVars, queueVars, histVars, sndVars, trVars, fnVars, procVars, extVars>>
vars      == <<envVars, dedupVars, rlVars, wkVars>>

----------------------------------------------------------------------------
(* Bounds of the model *)

NCallers == 2
MaxTicks == 2
MaxDedupCalls == 3
MaxOutages == 1
MaxRlCalls == 4
MaxSubmissions == 3
MaxE2ESubmissions == 2

Callers == 1..NCallers
Fingerprints == {"f1", "f2"}

(* Program constants *)
DefaultWindowSeconds == 300

(* Clock advances offered to the duplicate suppressor, in ms: a short one and
   one that is a second short of the default window. *)
DedupSteps == {1000, (DefaultWindowSeconds - 1) * 1000}

----------------------------------------------------------------------------
(* Environment *)

EnvInit ==
    /\ now = 0
    /\ ticks = 0
    /\ redisUp = TRUE
    /\ outages = 0
    /\ envRedisUrl \in BOOLEAN

\* getRedis(): throws when REDIS_URL is not set, else returns the singleton client.
GetRedisThrows == ~envRedisUrl

TickBy(d) ==
    /\ ticks < MaxTicks
    /\ now' = now + d
    /\ ticks' = ticks + 1
    /\ UNCHANGED <<redisUp, outages, envRedisUrl>>

\* The store becomes unreachable or reachable again.
RedisToggle ==
    /\ redisUp => outages < MaxOutages
    /\ redisUp' = ~redisUp
    /\ outages' = IF redisUp THEN outages + 1 ELSE outages
    /\ UNCHANGED <<now, ticks, envRedisUrl>>

----------------------------------------------------------------------------
(* Duplicate suppressor: checkDuplication *)

DedupInit ==
    /\ dedupKeys = [f \in Fingerprints |-> 0]
    /\ dedupInflight = [f \in Fingerprints |-> 0]
    /\ dedupLog = <<>>

\* A Redis key with a TTL exists until its expiry instant.
KeyLive(keys, k, t) == keys[k] > t

\* SET key '1' EX ttl without NX: always writes, always answers OK.
SetExNoNX(keys, k, t, ttlSeconds) ==
    [reply |-> "OK", keys |-> [keys EXCEPT ![k] = t + ttlSeconds * 1000]]

\* SET key '1' EX ttl NX that also refreshes the TTL of a key it finds.
SetExNXRefresh(keys, k, t, ttlSeconds) ==
    [reply |-> IF KeyLive(keys, k, t) THEN "nil" ELSE "OK",
     keys  |-> [keys EXCEPT ![k] = t + ttlSeconds * 1000]]

\* redis.set(key, '1', 'EX', windowSeconds, 'NX'): one atomic command.
SetExNX(keys, k, t, ttlSeconds) ==
    IF KeyLive(keys, k, t)
    THEN [reply |-> "nil", keys |-> keys]
    ELSE [reply |-> "OK", keys |-> [keys EXCEPT ![k] = t + ttlSeconds * 1000]]

\* The outcome of the catch block re-raising instead of failing open.
DedupCatchRethrow == "raised"

\* catch (error) { return { isDuplicate: false } }
DedupCatch == "notdup"

\* A result that never reports a duplicate.
DedupResultNever(reply) == "notdup"

\* return { isDuplicate: wasSet !== 'OK' }
DedupResult(reply) == IF reply # "OK" THEN "dup" ELSE "notdup"

DedupEntry(fp, res, threw) ==
    [fp |-> fp, t |-> now, res |-> res, threw |-> threw,
     conc |-> dedupInflight[fp] > 1]

DedupInflightTotal == dedupInflight["f1"] + dedupInflight["f2"]

\* checkDuplication({eventId}) up to the point where the SET is on the wire.
\* getRedis() runs before the try block: its error propagates to the caller.
DedupInvoke(fp) ==
    /\ DedupInflightTotal < NCallers
    /\ Len(dedupLog) + DedupInflightTotal < MaxDedupCalls
    /\ IF GetRedisThrows
       THEN /\ dedupLog' = Append(dedupLog, DedupEntry(fp, "raised", FALSE))
            /\ UNCHANGED <<dedupKeys, dedupInflight>>
       ELSE /\ dedupInflight' = [dedupInflight EXCEPT ![fp] = @ + 1]
            /\ UNCHANGED <<dedupKeys, dedupLog>>
    /\ UNCHANGED <<envVars, rlVars, wkVars>>

\* The SET of one of the calls on fp reaches the server (or fails), and that
\* checkDuplication returns.
DedupExec(fp) ==
    /\ dedupInflight[fp] > 0
    /\ LET r == SetExNX(dedupKeys, fp, now, DefaultWindowSeconds)
       IN  IF redisUp
           THEN /\ dedupKeys' = r.keys
                /\ dedupLog' = Append(dedupLog,
                                  DedupEntry(fp, DedupResult(r.reply), FALSE))
           ELSE /\ dedupKeys' = dedupKeys
                /\ dedupLog' = Append(dedupLog, DedupEntry(fp, DedupCatch, TRUE))
    /\ dedupInflight' = [dedupInflight EXCEPT ![fp] = @ - 1]
    /\ UNCHANGED <<envVars, rlVars, wkVars>>

DedupTick == \E d \in DedupSteps : TickBy(d) /\ UNCHANGED <<dedupVars, rlVars, wkVars>>

DedupRedisToggle == RedisToggle /\ UNCHANGED <<dedupVars, rlVars, wkVars>>

----------------------------------------------------------------------------
(* Admission controller: checkRateLimit, one identifier *)

\* The profile the calls are made with (checkRateLimit's limit and window).
RlLimit == 2
RlWindow == 10

\* Clock advances offered to the admission controller, in ms.
RlSteps == {4999, 5000, 6000}

\* The call has not returned.
NoRet == [done |-> FALSE, allowed |-> FALSE, remaining |-> 0, resetAt |-> 0,
          raised |-> FALSE]

\* return { allowed, remaining, resetAt }
Ret(allowed, remaining, resetAt) ==
    [done |-> TRUE, allowed |-> allowed, remaining |-> remaining,
     resetAt |-> resetAt, raised |-> FALSE]

RlInit ==
    /\ rlZset = {}
    /\ rlKeyExpiry = 0
    /\ rlPc = [c \in Callers |-> "idle"]
    /\ rlLocal = [c \in Callers |-> [now |-> 0, count |-> 0, ret |-> NoRet]]
    /\ rlNextMember = 1
    /\ rlLog = <<>>

\* The sorted set as a command finds it at server time t: a key whose TTL has
\* run out is gone.
RlLive(zset, expiry, t) == IF expiry # 0 /\ expiry <= t THEN {} ELSE zset
RlLiveExpiry(zset, expiry, t) ==
    IF RlLive(zset, expiry, t) = {} THEN 0 ELSE expiry

\* const windowStart = now - window * 1000
WindowStart(t, window) == t - window * 1000

\* redis.zremrangebyscore(key, 0, windowStart): both ends inclusive.
ZRemRangeByScore(zset, lo, hi) ==
    {e \in zset : ~(lo <= e[1] /\ e[1] <= hi)}

\* redis.zcard(key)
ZCard(zset) == Cardinality(zset)

\* redis.zrange(key, 0, 0, 'WITHSCORES'): the lowest score, as its reply carries it.
ZRangeOldest(zset) ==
    IF zset = {} THEN <<>>
    ELSE LET lo == CHOOSE e \in zset : \A f \in zset : e[1] <= f[1]
         IN  <<lo[2], lo[1]>>

\* oldest.length > 0 ? parseInt(oldest[1]) + window * 1000 : now + window * 1000
ResetAt(oldest, t, window) ==
    IF Len(oldest) > 0 THEN oldest[2] + window * 1000 ELSE t + window * 1000

RlEntry(c, allowed, threw, remaining, resetAt) ==
    [t |-> rlLocal[c].now, allowed |-> allowed, threw |-> threw,
     remaining |-> remaining, resetAt |-> resetAt, raised |-> FALSE]

RlRunning == {c \in Callers : rlPc[c] # "idle"}

\* A catch block that fails closed: the call is rejected when the store threw.
RlCatchDeny(c) ==
    /\ rlLog' = Append(rlLog, RlEntry(c, FALSE, TRUE, 0,
                                      rlLocal[c].now + RlWindow * 1000))
    /\ rlLocal' = [rlLocal EXCEPT ![c].ret =
                       Ret(FALSE, 0, rlLocal[c].now + RlWindow * 1000)]
    /\ rlPc' = [rlPc EXCEPT ![c] = "idle"]
    /\ UNCHANGED <<rlZset, rlKeyExpiry, rlNextMember>>

\* catch (error): fail open, whatever step threw.
RlCatch(c) ==
    /\ rlLog' = Append(rlLog, RlEntry(c, TRUE, TRUE, RlLimit,
                                      rlLocal[c].now + RlWindow * 1000))
    /\ rlLocal' = [rlLocal EXCEPT ![c].ret =
                       Ret(TRUE, RlLimit, rlLocal[c].now + RlWindow * 1000)]
    /\ rlPc' = [rlPc EXCEPT ![c] = "idle"]
    /\ UNCHANGED <<rlZset, rlKeyExpiry, rlNextMember>>

\* Lines 16-21: getRedis() (outside the try block) and now = Date.now().
RlBegin(c) ==
    /\ rlPc[c] = "idle"
    /\ Len(rlLog) + Cardinality(RlRunning) < MaxRlCalls
    /\ IF GetRedisThrows
       THEN /\ rlLog' = Append(rlLog, [t |-> now, allowed |-> FALSE, threw |-> FALSE,
                                       remaining |-> 0, resetAt |-> 0, raised |-> TRUE])
            /\ rlLocal' = [rlLocal EXCEPT ![c].ret = [NoRet EXCEPT !.done = TRUE,
                                                                   !.raised = TRUE]]
            /\ UNCHANGED rlPc
       ELSE /\ rlPc' = [rlPc EXCEPT ![c] = "zrem"]
            /\ rlLocal' = [rlLocal EXCEPT ![c] = [now |-> now, count |-> 0,
                                                  ret |-> NoRet]]
            /\ UNCHANGED rlLog
    /\ UNCHANGED <<rlZset, rlKeyExpiry, rlNextMember, envVars, dedupVars, wkVars>>

\* The same, issued only when no other call on the identifier is running.
RlBeginSeq(c) == RlRunning = {} /\ RlBegin(c)

\* Line 25: await redis.zremrangebyscore(key, 0, windowStart)
RlZrem(c) ==
    /\ rlPc[c] = "zrem"
    /\ IF ~redisUp THEN RlCatch(c)
       ELSE LET live == RlLive(rlZset, rlKeyExpiry, now)
                kept == ZRemRangeByScore(live, 0,
                                         WindowStart(rlLocal[c].now, RlWindow))
            IN  /\ rlZset' = kept
                /\ rlKeyExpiry' = RlLiveExpiry(kept, rlKeyExpiry, now)
                /\ rlPc' = [rlPc EXCEPT ![c] = "zcard"]
                /\ UNCHANGED <<rlLocal, rlNextMember, rlLog>>
    /\ UNCHANGED <<envVars, dedupVars, wkVars>>

\* Lines 28-30: const count = await redis.zcard(key); if (count >= limit)
RlZcard(c) ==
    /\ rlPc[c] = "zcard"
    /\ IF ~redisUp THEN RlCatch(c)
       ELSE LET live == RlLive(rlZset, rlKeyExpiry, now)
                count == ZCard(live)
            IN  /\ rlZset' = live
                /\ rlKeyExpiry' = RlLiveExpiry(live, rlKeyExpiry, now)
                /\ rlLocal' = [rlLocal EXCEPT ![c].count = count]
                /\ rlPc' = [rlPc EXCEPT ![c] =
                               IF count >= RlLimit THEN "zrange" ELSE "zadd"]
                /\ UNCHANGED <<rlNextMember, rlLog>>
    /\ UNCHANGED <<envVars, dedupVars, wkVars>>

\* Lines 32-39: the rejection, with the oldest marker's score for resetAt.
RlZrange(c) ==
    /\ rlPc[c] = "zrange"
    /\ IF ~redisUp THEN RlCatch(c)
       ELSE LET live == RlLive(rlZset, rlKeyExpiry, now)
                oldest == ZRangeOldest(live)
            IN  /\ rlZset' = live
                /\ rlKeyExpiry' = RlLiveExpiry(live, rlKeyExpiry, now)
                /\ rlLog' = Append(rlLog,
                      RlEntry(c, FALSE, FALSE, 0,
                              ResetAt(oldest, rlLocal[c].now, RlWindow)))
                /\ rlLocal' = [rlLocal EXCEPT ![c].ret =
                                   Ret(FALSE, 0, ResetAt(oldest, rlLocal[c].now, RlWindow))]
                /\ rlPc' = [rlPc EXCEPT ![c] = "idle"]
                /\ UNCHANGED rlNextMember
    /\ UNCHANGED <<envVars, dedupVars, wkVars>>

\* Line 43: await redis.zadd(key, now, `${now}-${Math.random()}`)
RlZadd(c) ==
    /\ rlPc[c] = "zadd"
    /\ IF ~redisUp THEN RlCatch(c)
       ELSE LET live == RlLive(rlZset, rlKeyExpiry, now)
            IN  /\ rlZset' = live \cup {<<rlLocal[c].now, rlNextMember>>}
                /\ rlKeyExpiry' = RlLiveExpiry(live, rlKeyExpiry, now)
                /\ rlNextMember' = rlNextMember + 1
                /\ rlPc' = [rlPc EXCEPT ![c] = "expire"]
                /\ UNCHANGED <<rlLocal, rlLog>>
    /\ UNCHANGED <<envVars, dedupVars, wkVars>>

\* Lines 46-52: await redis.expire(key, window); the admission is returned.
RlExpire(c) ==
    /\ rlPc[c] = "expire"
    /\ IF ~redisUp THEN RlCatch(c)
       ELSE LET live == RlLive(rlZset, rlKeyExpiry, now)
            IN  /\ rlZset' = live
                /\ rlKeyExpiry' = IF live = {} THEN 0 ELSE now + RlWindow * 1000
                /\ rlLog' = Append(rlLog,
                      RlEntry(c, TRUE, FALSE, RlLimit - rlLocal[c].count - 1,
                              rlLocal[c].now + RlWindow * 1000))
                /\ rlLocal' = [rlLocal EXCEPT ![c].ret =
                                   Ret(TRUE, RlLimit - rlLocal[c].count - 1,
                                       rlLocal[c].now + RlWindow * 1000)]
                /\ rlPc' = [rlPc EXCEPT ![c] = "idle"]
                /\ UNCHANGED rlNextMember
    /\ UNCHANGED <<envVars, dedupVars, wkVars>>

RlTick == \E d \in RlSteps : TickBy(d) /\ UNCHANGED <<dedupVars, rlVars, wkVars>>

RlRedisToggle == RedisToggle /\ UNCHANGED <<dedupVars, rlVars, wkVars>>

----------------------------------------------------------------------------
(* Event record store, delivery queue, dispatch worker and platform fan-out *)

NWorkers == 2
MaxDbFaults == 3
MaxManualRetries == 1

Workers == 1..NWorkers
Events == {"e1", "e2"}
Platforms == {"facebook", "tiktok"}
ConfigIds == {"c1", "c2"}

\* The ids BullMQ gives to jobs added without a jobId option.
AutoIds == {"auto1", "auto2"}
JobIds == Events \cup AutoIds

\* defaultJobOptions.attempts
Attempts == 3
\* defaultJobOptions.backoff.delay, in ms
BackoffDelayMs == 5000
\* BullMQ's maxStalledCount default: a job found stalled more often is failed.
MaxStalledCount == 1

Row(platform, isActive, enabled, token) ==
    [platform |-> platform, isActive |-> isActive,
     conversionApiEnabled |-> enabled, accessToken |-> token]

\* The PixelConfig tables the merchant may have. The rows of a merchant are
\* unique in (platform, pixelId): two rows may name the same platform.
ConfigTables ==
    { [c \in ConfigIds |-> IF c = "c1" THEN Row("facebook", TRUE, TRUE, TRUE)
                                        ELSE Row("tiktok", TRUE, TRUE, TRUE)],
      [c \in ConfigIds |-> IF c = "c1" THEN Row("facebook", TRUE, TRUE, TRUE)
                                        ELSE Row("tiktok", TRUE, FALSE, TRUE)],
      [c \in ConfigIds |-> IF c = "c1" THEN Row("facebook", TRUE, TRUE, FALSE)
                                        ELSE Row("tiktok", TRUE, TRUE, TRUE)],
      [c \in ConfigIds |-> IF c = "c1" THEN Row("facebook", FALSE, TRUE, TRUE)
                                        ELSE Row("tiktok", FALSE, TRUE, TRUE)],
      [c \in ConfigIds |-> IF c = "c1" THEN Row("facebook", TRUE, TRUE, TRUE)
                                        ELSE Row("facebook", TRUE, TRUE, TRUE)],
      [c \in ConfigIds |-> IF c = "c1" THEN Row("facebook", TRUE, FALSE, TRUE)
                                        ELSE Row("tiktok", FALSE, TRUE, TRUE)] }

NoJob == [evt |-> "none", state |-> "none", attemptsMade |-> 0, stalled |-> 0]
IdleRun == [job |-> "none", ev |-> "none", pc |-> "idle", attemptsMade |-> 0,
            rc0 |-> 0, dbThrew |-> FALSE, snd |-> [c \in ConfigIds |-> "none"]]
NoAttempt == [n |-> 0, invoked |-> {}, raised |-> {}, succeeded |-> {},
              skipped |-> {}, threw |-> FALSE, dbThrew |-> FALSE,
              rcBefore |-> 0, rcAfter |-> 0,
              statusAfter |-> "pending", jobAfter |-> "none"]

\* The sent timestamp of a platform to which nothing was sent (null).
NoSentAt == -1

\* The platforms that have a sender (config.platform).
SenderPlatforms == Platforms \cup {"google_analytics"}

\* No sender invocation is being followed.
SxIdle == [platform |-> "facebook", token |-> FALSE, pc |-> "idle", calls |-> 0,
           answered |-> FALSE,
           resp |-> [fetched |-> FALSE, ok |-> FALSE, json |-> FALSE,
                     body |-> [error |-> FALSE, events_received |-> 0,
                               messages |-> FALSE, code |-> 0]],
           status |-> "null", sentAt |-> NoSentAt, logged |-> FALSE]

\* No webhook is being handled and none was answered.
WhIdle == [pc |-> "idle", log |-> {}]

\* The tracker has not been loaded in a page.
BqIdle == [pc |-> "none"]

\* The queue and the workers before any event is created: every worker
\* process has called startEventWorker() and runs.
WkFresh ==
    /\ evRetryCount = [e \in Events |-> 0]
    /\ evPlatform = [e \in Events |-> [p \in Platforms |-> "null"]]
    /\ evSentAt = [e \in Events |-> [p \in Platforms |-> NoSentAt]]
    /\ evLog = [e \in Events |-> {}]
    /\ wproc = [w \in Workers |-> "running"]
    /\ heldAtSignal = [w \in Workers |-> "none"]
    /\ wh = WhIdle
    /\ bq = BqIdle
    /\ job = [id \in JobIds |-> NoJob]
    /\ run = [w \in Workers |-> IdleRun]
    /\ manualRetries = 0
    /\ lastAttempt = [e \in Events |-> NoAttempt]
    /\ evAttempts = [e \in Events |-> 0]
    /\ evFailedAttempts = [e \in Events |-> 0]
    /\ evThrown = [e \in Events |-> 0]
    /\ reinvoked = [e \in Events |-> {}]
    /\ everSucceeded = [e \in Events |-> {}]
    /\ requeued = [e \in Events |-> FALSE]

\* The record store, the queue and the workers before any event is created.
WkEmpty ==
    /\ dbFaults = 0
    /\ WkFresh

\* The state in which no event has been created: the store, the queue and the
\* workers as the other specifications leave them.
WkIdle ==
    /\ pixelConfigs = [c \in ConfigIds |-> Row("facebook", FALSE, FALSE, FALSE)]
    /\ evStatus = [e \in Events |-> "absent"]
    /\ WkEmpty

\* One event exists with status pending (as the ingestion endpoint creates
\* it), nothing is queued and the workers have started.
WkInit ==
    /\ pixelConfigs \in ConfigTables
    /\ evStatus = [e \in Events |-> IF e = "e1" THEN "pending" ELSE "absent"]
    /\ WkEmpty

OtherUnchanged == UNCHANGED <<envVars, dedupVars, rlVars, sndVars, trVars, fnVars, procVars, extVars>>

\* A record-store operation may throw; the run is bounded in how often.
MayFault == dbFaults < MaxDbFaults

----------------------------------------------------------------------------
(* Delivery queue *)

\* A job added without the jobId option gets a fresh id of the queue's own.
JobIdAuto(e) == IF job["auto1"].state = "none" THEN "auto1" ELSE "auto2"

\* {jobId: data.trackingEventId}: the event id is the job id.
JobId(e) == e

\* The event has a job that is waiting, delayed or active.
Outstanding(e) ==
    \E id \in JobIds :
        job[id].evt = e /\ job[id].state \in {"waiting", "delayed", "active"}

\* An add that is lost: no job comes to exist.
QueueAddLost(j, e) == j

\* queue.add(name, data, {jobId}): BullMQ ignores an add whose jobId names a job
\* that still exists.
QueueAdd(j, e) ==
    IF j.state = "none" THEN [NoJob EXCEPT !.evt = e, !.state = "waiting"] ELSE j

\* queueEvent(data), for an event record the caller has created.
queueEvent(e) ==
    /\ evStatus[e] # "absent"
    /\ job' = [job EXCEPT ![JobId(e)] = QueueAdd(job[JobId(e)], e)]
    /\ UNCHANGED <<dbVars, run, manualRetries, histVars>>
    /\ OtherUnchanged

\* queueEvent(data) called once more while the event's job is outstanding.
queueEventAgain(e) ==
    /\ evStatus[e] # "absent"
    /\ Outstanding(e)
    /\ job' = [job EXCEPT ![JobId(e)] = QueueAdd(job[JobId(e)], e)]
    /\ requeued' = [requeued EXCEPT ![e] = TRUE]
    /\ UNCHANGED <<dbVars, run, manualRetries, lastAttempt, evAttempts,
                   evFailedAttempts, evThrown, reinvoked, everSucceeded>>
    /\ OtherUnchanged

\* BullMQ, when the processor's promise rejects: the attempt is counted, and the
\* job is delayed for another attempt (backoff) while attempts remain, else failed.
JobAfterThrow(j) ==
    [j EXCEPT !.attemptsMade = j.attemptsMade + 1,
              !.state = IF j.attemptsMade + 1 < Attempts THEN "delayed" ELSE "failed"]

\* BullMQ, when the processor's promise resolves.
JobAfterReturn(j) == [j EXCEPT !.state = "completed"]

\* BullMQ's stalled-job check: an active job whose worker no longer renews its
\* lock goes back to wait, or fails once it has stalled too often.
JobAfterStall(j) ==
    IF j.stalled >= MaxStalledCount
    THEN [j EXCEPT !.state = "failed"]
    ELSE [j EXCEPT !.state = "waiting", !.stalled = j.stalled + 1]

\* BullMQ's exponential backoff: delay * 2^(attemptsMade - 1) ms.
BackoffDelay(attemptsMade) == BackoffDelayMs * 2 ^ (attemptsMade - 1)

\* The backoff delay of a delayed job has passed: the queue's scheduler moves
\* it to wait.
QPromote(id) ==
    /\ job[id].state = "delayed"
    /\ job' = [job EXCEPT ![id].state = "waiting"]
    /\ now' = now + BackoffDelay(job[id].attemptsMade)
    /\ UNCHANGED <<dbVars, run, manualRetries, histVars>>
    /\ UNCHANGED <<ticks, redisUp, outages, envRedisUrl, dedupVars, rlVars, sndVars, fnVars,
                   trVars, procVars, extVars>>

\* retryFailedJobs(): job.retry() on every failed job moves it back to wait
\* (a call that finds no failed job does nothing).
retryFailedJobs ==
    /\ manualRetries < MaxManualRetries
    /\ \E id \in JobIds : job[id].state = "failed"
    /\ manualRetries' = manualRetries + 1
    /\ job' = [id \in JobIds |->
                 IF job[id].state = "failed"
                 THEN [job[id] EXCEPT !.state = "waiting"] ELSE job[id]]
    /\ UNCHANGED <<dbVars, run, histVars>>
    /\ OtherUnchanged

----------------------------------------------------------------------------
(* Platform senders: what a sender makes of the platform's response *)

\* The parsed bodies a platform may answer with.
Bodies == [error : BOOLEAN, events_received : {0, 1}, messages : BOOLEAN,
           code : {0, 40002}]

\* The outcomes of fetch(): it throws (fetched = FALSE) or resolves with a
\* response of status 2xx (ok) or not, whose body parses as JSON or not.
Responses == [fetched : BOOLEAN, ok : BOOLEAN, json : BOOLEAN, body : Bodies]

\* sendToFacebook, a check of the HTTP status only.
FacebookRejectsByStatus(r) == ~r.fetched \/ ~r.ok \/ ~r.json

\* sendToFacebook lines 194-208: fetch, response.json(),
\* if (data.error || (data.events_received === 0 && data.messages)) throw
FacebookRejects(r) ==
    \/ ~r.fetched
    \/ ~r.json
    \/ r.body.error
    \/ (r.body.events_received = 0 /\ r.body.messages)

\* sendToTikTok lines 323-336: fetch, response.json(), if (data.code !== 0) throw
TikTokRejects(r) ==
    \/ ~r.fetched
    \/ ~r.json
    \/ r.body.code # 0

\* sendToGoogleAnalytics lines 423-435: fetch,
\* if (!response.ok && response.status !== 204) throw
GoogleRejects(r) == ~r.fetched \/ ~r.ok

SenderRejects(platform, r) ==
    CASE platform = "facebook" -> FacebookRejects(r)
      [] platform = "tiktok" -> TikTokRejects(r)
      [] OTHER -> GoogleRejects(r)

\* One invocation of sendToFacebook / sendToTikTok / sendToGoogleAnalytics for
\* an event whose status for the platform is null, followed step by step.
SxInit ==
    \E platform \in SenderPlatforms, token \in BOOLEAN :
        sx = [SxIdle EXCEPT !.platform = platform, !.token = token, !.pc = "start"]

SxFrame == UNCHANGED <<envVars, dedupVars, rlVars, dbVars, queueVars, histVars,
                       trVars, fnVars, procVars, extVars>>

\* if (!config.accessToken) throw ...; the payload is built and fetch is called.
SxStart ==
    /\ sx.pc = "start"
    /\ sx' = IF ~sx.token
             THEN [sx EXCEPT !.pc = "raised"]
             ELSE [sx EXCEPT !.pc = "fetching", !.calls = @ + 1]
    /\ SxFrame

\* fetch settles and the sender checks the response.
SxResponse ==
    /\ sx.pc = "fetching"
    /\ \E resp \in Responses :
          sx' = [sx EXCEPT !.answered = TRUE, !.resp = resp,
                           !.pc = IF SenderRejects(sx.platform, resp)
                                  THEN "raised" ELSE "recording"]
    /\ SxFrame

\* prisma.trackingEvent.update({<platform>Status: 'success', <platform>SentAt}),
\* which may throw.
SxRecord ==
    /\ sx.pc = "recording"
    /\ \/ sx' = [sx EXCEPT !.status = "success", !.sentAt = now, !.pc = "logging"]
       \/ sx' = [sx EXCEPT !.pc = "raised"]
    /\ SxFrame

\* prisma.eventLog.create({level: 'info', ...}), which may throw; the sender
\* returns.
SxLog ==
    /\ sx.pc = "logging"
    /\ \/ sx' = [sx EXCEPT !.logged = TRUE, !.pc = "done"]
       \/ sx' = [sx EXCEPT !.pc = "raised"]
    /\ SxFrame

----------------------------------------------------------------------------
(* Dispatch worker: the job processor of startEventWorker, and
   PixelSender.sendToAllPlatforms with the senders it starts *)

SndSettled == {"none", "skipped", "done", "raised"}
SndInFlight == {"calling", "recording", "logging"}
Invoked(r)   == {c \in ConfigIds : r.snd[c] \notin {"none", "skipped"}}
Raised(r)    == {c \in ConfigIds : r.snd[c] = "raised"}
Succeeded(r) == {c \in ConfigIds : r.snd[c] = "done"}
Skipped(r)   == {c \in ConfigIds : r.snd[c] = "skipped"}

\* A worker takes a waiting job: the processor is called with the job. The
\* workers are interchangeable: the idle worker of lowest number among those
\* that still fetch takes it. A worker on which close() was called fetches no
\* more (bullmq Worker: the fetch loop ends once closing is set).
WPick(w, id) ==
    /\ wproc[w] = "running"
    /\ run[w].job = "none"
    /\ \A v \in Workers : v < w /\ wproc[v] = "running" => run[v].job # "none"
    /\ job[id].state = "waiting"
    /\ job' = [job EXCEPT ![id].state = "active"]
    /\ run' = [run EXCEPT ![w] = [IdleRun EXCEPT !.job = id,
                                     !.ev = job[id].evt,
                                     !.pc = "markProcessing",
                                     !.attemptsMade = job[id].attemptsMade,
                                     !.rc0 = evRetryCount[job[id].evt]]]
    /\ UNCHANGED <<dbVars, manualRetries, histVars>>
    /\ OtherUnchanged

\* The history of an attempt that ends now, with the status and retry count it
\* leaves and the state the queue gives the job.
Summary(r, threw, status, rc, jobState) ==
    [n |-> r.attemptsMade + 1, invoked |-> Invoked(r), raised |-> Raised(r),
     succeeded |-> Succeeded(r), skipped |-> Skipped(r), threw |-> threw,
     dbThrew |-> r.dbThrew, rcBefore |-> r.rc0,
     rcAfter |-> rc, statusAfter |-> status, jobAfter |-> jobState]

\* The processor's promise settles: the queue moves the job, the worker is free.
Finish(w, threw) ==
    LET r == run[w]
        e == r.ev
        j == IF threw THEN JobAfterThrow(job[r.job]) ELSE JobAfterReturn(job[r.job])
    IN  /\ job' = [job EXCEPT ![r.job] = j]
        /\ run' = [run EXCEPT ![w] = IdleRun]
        /\ lastAttempt' = [lastAttempt EXCEPT ![e] =
                              Summary(r, threw, evStatus'[e], evRetryCount'[e], j.state)]
        /\ evAttempts' = [evAttempts EXCEPT ![e] = @ + 1]
        /\ evFailedAttempts' = [evFailedAttempts EXCEPT ![e] =
                                   IF Raised(r) # {} \/ threw THEN @ + 1 ELSE @]
        /\ evThrown' = [evThrown EXCEPT ![e] = IF threw THEN @ + 1 ELSE @]
        /\ UNCHANGED <<manualRetries, reinvoked, everSucceeded, requeued>>

\* A record-store operation of the processor throws: control goes to `to`.
Fault(w, to) ==
    /\ MayFault
    /\ dbFaults' = dbFaults + 1
    /\ run' = [run EXCEPT ![w].pc = to, ![w].dbThrew = TRUE]
    /\ UNCHANGED <<pixelConfigs, evStatus, evRetryCount, evPlatform, evSentAt,
                   evLog, job, manualRetries, histVars>>

\* Lines 111-114: prisma.trackingEvent.update({status: 'processing'})
WMarkProcessing(w) ==
    /\ run[w].pc = "markProcessing"
    /\ \/ /\ evStatus' = [evStatus EXCEPT ![run[w].ev] = "processing"]
          /\ run' = [run EXCEPT ![w].pc = "load"]
          /\ UNCHANGED <<pixelConfigs, evRetryCount, evPlatform, evSentAt, evLog,
                         dbFaults, job, manualRetries, histVars>>
       \/ Fault(w, "catchIncr")
    /\ OtherUnchanged

\* The async function that pixelConfigs.map starts for one config, up to its
\* first suspension, started only while no sender of the attempt has raised.
StartSenderFailFast(snd, c) ==
    IF ~pixelConfigs[c].isActive THEN "none"
    ELSE IF \E d \in ConfigIds : snd[d] = "raised" THEN "none"
    ELSE IF ~pixelConfigs[c].conversionApiEnabled THEN "skipped"
    ELSE IF ~pixelConfigs[c].accessToken THEN "raised"
    ELSE "calling"

\* The same without the sender's check of the credential.
StartSenderNoCredentialCheck(snd, c) ==
    IF ~pixelConfigs[c].isActive THEN "none"
    ELSE IF ~pixelConfigs[c].conversionApiEnabled THEN "skipped"
    ELSE "calling"

\* The same without the check of conversionApiEnabled.
StartSenderIgnoreEnabled(snd, c) ==
    IF ~pixelConfigs[c].isActive THEN "none"
    ELSE IF ~pixelConfigs[c].accessToken THEN "raised"
    ELSE "calling"

\* The async function that pixelConfigs.map starts for one config, up to its
\* first suspension: a disabled config returns, a sender without credential
\* throws, any other sender has its request on the wire.
StartSender(snd, c) ==
    IF ~pixelConfigs[c].isActive THEN "none"
    ELSE IF ~pixelConfigs[c].conversionApiEnabled THEN "skipped"
    ELSE IF ~pixelConfigs[c].accessToken THEN "raised"
    ELSE "calling"

\* pixelConfigs.map(async (config) => ...): the configs in order, each started.
RECURSIVE FanOut(_, _)
FanOut(snd, todo) ==
    IF todo = <<>> THEN snd
    ELSE FanOut([snd EXCEPT ![Head(todo)] = StartSender(snd, Head(todo))], Tail(todo))

ConfigOrder == <<"c1", "c2">>

\* sendToAllPlatforms lines 50-96: the event and the active configs are read
\* and every config's sender is started.
WLoadAndFanOut(w) ==
    /\ run[w].pc = "load"
    /\ \/ LET e == run[w].ev
              snd == FanOut(run[w].snd, ConfigOrder)
              again == {c \in ConfigIds :
                          /\ snd[c] \notin {"none", "skipped"}
                          /\ evPlatform[e][pixelConfigs[c].platform] = "success"}
          IN  /\ run' = [run EXCEPT ![w].snd = snd,
                                    ![w].pc = IF \A c \in ConfigIds : ~pixelConfigs[c].isActive
                                              THEN "markCompleted" ELSE "awaitSettled"]
              /\ reinvoked' = [reinvoked EXCEPT ![e] = @ \cup again]
              /\ UNCHANGED <<dbVars, job, manualRetries, lastAttempt,
                             evAttempts, evFailedAttempts, evThrown, everSucceeded,
                             requeued>>
       \/ Fault(w, "catchIncr")
    /\ OtherUnchanged

\* The platform answers the request of config c (or the fetch throws); the
\* sender raises or goes on according to its check of the response.
SenderResponse(w, c) ==
    /\ run[w].pc = "awaitSettled"
    /\ run[w].snd[c] = "calling"
    /\ \E rejects \in {SenderRejects(pixelConfigs[c].platform, resp) :
                            resp \in Responses} :
          run' = [run EXCEPT ![w].snd[c] =
                     IF rejects THEN "raised" ELSE "recording"]
    /\ UNCHANGED <<dbVars, job, manualRetries, histVars>>
    /\ OtherUnchanged

\* The sender's prisma.trackingEvent.update({<platform>Status: 'success',
\* <platform>SentAt: new Date()}).
SenderRecord(w, c) ==
    /\ run[w].pc = "awaitSettled"
    /\ run[w].snd[c] = "recording"
    /\ LET e == run[w].ev
           p == pixelConfigs[c].platform
       IN  \/ /\ evPlatform' = [evPlatform EXCEPT ![e][p] = "success"]
              /\ evSentAt' = [evSentAt EXCEPT ![e][p] = now]
              /\ everSucceeded' = [everSucceeded EXCEPT ![e] = @ \cup {p}]
              /\ run' = [run EXCEPT ![w].snd[c] = "logging"]
              /\ UNCHANGED <<pixelConfigs, evStatus, evRetryCount, evLog, dbFaults,
                             job, manualRetries, lastAttempt, evAttempts,
                             evFailedAttempts, evThrown, reinvoked, requeued>>
           \/ /\ MayFault
              /\ dbFaults' = dbFaults + 1
              /\ run' = [run EXCEPT ![w].snd[c] = "raised"]
              /\ UNCHANGED <<pixelConfigs, evStatus, evRetryCount, evPlatform,
                             evSentAt, evLog, job, manualRetries, histVars>>
    /\ OtherUnchanged

\* The sender's prisma.eventLog.create({level: 'info', ...}) and its return.
SenderLog(w, c) ==
    /\ run[w].pc = "awaitSettled"
    /\ run[w].snd[c] = "logging"
    /\ \/ /\ run' = [run EXCEPT ![w].snd[c] = "done"]
          /\ evLog' = [evLog EXCEPT ![run[w].ev] = @ \cup {pixelConfigs[c].platform}]
          /\ UNCHANGED dbFaults
       \/ /\ MayFault
          /\ dbFaults' = dbFaults + 1
          /\ run' = [run EXCEPT ![w].snd[c] = "raised"]
          /\ UNCHANGED evLog
    /\ UNCHANGED <<pixelConfigs, evStatus, evRetryCount, evPlatform, evSentAt, job,
                   manualRetries, histVars>>
    /\ OtherUnchanged

\* Line 98: await Promise.allSettled(promises) resolves when every sender has
\* settled, whatever their outcomes; sendToAllPlatforms returns.
WAllSettled(w) ==
    /\ run[w].pc = "awaitSettled"
    /\ \A c \in ConfigIds : run[w].snd[c] \in SndSettled
    /\ run' = [run EXCEPT ![w].pc = "markCompleted"]
    /\ UNCHANGED <<dbVars, job, manualRetries, histVars>>
    /\ OtherUnchanged

\* Lines 123-131: prisma.trackingEvent.update({status: 'completed'}); the
\* processor returns.
WMarkCompleted(w) ==
    /\ run[w].pc = "markCompleted"
    /\ \/ /\ evStatus' = [evStatus EXCEPT ![run[w].ev] = "completed"]
          /\ UNCHANGED <<pixelConfigs, evRetryCount, evPlatform, evSentAt, evLog,
                         dbFaults>>
          /\ Finish(w, FALSE)
       \/ Fault(w, "catchIncr")
    /\ OtherUnchanged

\* Line 146: if (job.attemptsMade >= (job.opts.attempts || 3) - 1)
IsLastAttempt(attemptsMade) == attemptsMade >= Attempts - 1

\* Lines 136-143, 158: the catch block increments retryCount; unless this was
\* the last attempt it re-throws. If the update throws, that error leaves the
\* processor.
WCatchIncr(w) ==
    /\ run[w].pc = "catchIncr"
    /\ \/ /\ evRetryCount' = [evRetryCount EXCEPT ![run[w].ev] = @ + 1]
          /\ UNCHANGED <<pixelConfigs, evStatus, evPlatform, evSentAt, evLog, dbFaults>>
          /\ IF IsLastAttempt(run[w].attemptsMade)
             THEN /\ run' = [run EXCEPT ![w].pc = "catchMarkFailed"]
                  /\ UNCHANGED <<job, manualRetries, histVars>>
             ELSE Finish(w, TRUE)
       \/ /\ MayFault
          /\ dbFaults' = dbFaults + 1
          /\ UNCHANGED <<pixelConfigs, evStatus, evRetryCount, evPlatform, evSentAt,
                         evLog>>
          /\ Finish(w, TRUE)
    /\ OtherUnchanged

\* Lines 146-158: on the last attempt the event is marked failed, and the error
\* is re-thrown.
WCatchMarkFailed(w) ==
    /\ run[w].pc = "catchMarkFailed"
    /\ \/ /\ evStatus' = [evStatus EXCEPT ![run[w].ev] = "failed"]
          /\ UNCHANGED <<pixelConfigs, evRetryCount, evPlatform, evSentAt, evLog,
                         dbFaults>>
       \/ /\ MayFault
          /\ dbFaults' = dbFaults + 1
          /\ UNCHANGED <<pixelConfigs, evStatus, evRetryCount, evPlatform, evSentAt,
                         evLog>>
    /\ Finish(w, TRUE)
    /\ OtherUnchanged

\* The worker process dies mid-job; the queue finds the job stalled.
WorkerCrash(w) ==
    /\ run[w].job # "none"
    /\ job' = [job EXCEPT ![run[w].job] = JobAfterStall(@)]
    /\ run' = [run EXCEPT ![w] = IdleRun]
    /\ UNCHANGED <<dbVars, manualRetries, histVars>>
    /\ OtherUnchanged

\* SIGTERM or SIGINT reaches a worker process. Both listeners registered for
\* the signal run, the one of event-queue.ts (stopEventWorker) and the one of
\* the worker script; each calls worker.close(), and a second close() returns
\* the promise of the first. The worker is closing.
WSignal(w) ==
    /\ wproc[w] = "running"
    /\ wproc' = [wproc EXCEPT ![w] = "closing"]
    /\ heldAtSignal' = [heldAtSignal EXCEPT ![w] = run[w].job]
    /\ UNCHANGED <<envVars, dedupVars, rlVars, dbVars, queueVars, histVars,
                   sndVars, trVars, fnVars, extVars>>

\* close(true) would not wait for the job in flight.
WCloseForce(w) ==
    /\ wproc[w] = "closing"
    /\ wproc' = [wproc EXCEPT ![w] = "closed"]
    /\ UNCHANGED heldAtSignal
    /\ UNCHANGED <<envVars, dedupVars, rlVars, dbVars, queueVars, histVars,
                   sndVars, trVars, fnVars, extVars>>

\* await worker.close() resolves: close() waits until the processor has
\* returned or thrown for every job in flight and the queue has the result,
\* then closes the worker's connections to the queue.
WClose(w) ==
    /\ wproc[w] = "closing"
    /\ run[w].job = "none"
    /\ wproc' = [wproc EXCEPT ![w] = "closed"]
    /\ UNCHANGED heldAtSignal
    /\ UNCHANGED <<envVars, dedupVars, rlVars, dbVars, queueVars, histVars,
                   sndVars, trVars, fnVars, extVars>>

\* process.exit(0) after the await.
WExit(w) ==
    /\ wproc[w] = "closed"
    /\ wproc' = [wproc EXCEPT ![w] = "exited"]
    /\ UNCHANGED heldAtSignal
    /\ UNCHANGED <<envVars, dedupVars, rlVars, dbVars, queueVars, histVars,
                   sndVars, trVars, fnVars, extVars>>

----------------------------------------------------------------------------
(* Ingestion endpoint: POST /api/track *)

\* merchant.monthlyEventLimit of the unlimited tier
Unlimited == -1

\* The merchantId a request resolves to (body, x-merchant-id header or query
\* parameter): the existing merchant, an id no merchant has, or none at all.
MerchantIds == {"m1", "unknown", ""}

\* What the handler reads from a request: a body that is an event of the
\* schema, one that is JSON but fails trackingEventSchema.parse, or one that
\* is not JSON; the merchantId; the fingerprint generateEventId computes.
\* (The fields the handler never gets to read are left at one value.)
Inputs ==
    {i \in [body : {"event", "invalid", "notJson"}, merchantId : MerchantIds,
            eventId : Fingerprints] :
        /\ i.body # "event" => i.merchantId = ""
        /\ i.merchantId # "m1" => i.eventId = "f1"}

NoInput == [body |-> "event", merchantId |-> "", eventId |-> "f1"]

NoResp == [status |-> 0, kind |-> "none", resetAt |-> 0, remaining |-> 0,
           ev |-> "none"]

\* A request slot in which no handler runs.
TrIdleRec == [pc |-> "idle", input |-> NoInput, rl |-> NoRet, count |-> 0,
              ev |-> "none", effects |-> {}]

\* The endpoint as the other specifications leave it.
TrIdle ==
    /\ tr = [r \in Callers |-> TrIdleRec]
    /\ trLog = {}
    /\ monthlyEventCount = 0
    /\ monthlyEventLimit = Unlimited
    /\ evEventId = [e \in Events |-> "none"]

\* The merchant exists with a fresh monthly count, on the unlimited tier or on
\* a tier with a limit.
TrInit ==
    /\ tr = [r \in Callers |-> TrIdleRec]
    /\ trLog = {}
    /\ monthlyEventCount = 0
    /\ monthlyEventLimit \in {Unlimited, 1}
    /\ evEventId = [e \in Events |-> "none"]

\* NextResponse.json(...): the handler returns.
Respond(r, resp) ==
    /\ trLog' = trLog \cup {[input |-> tr[r].input, resp |-> resp,
                             effects |-> tr[r].effects, ev |-> tr[r].ev]}
    /\ tr' = [tr EXCEPT ![r] = TrIdleRec]

Resp(status, kind) == [NoResp EXCEPT !.status = status, !.kind = kind]

\* catch (error) at the end of the handler: 500 'Internal server error'
InternalError == Resp(500, "internal")

\* The id the record store gives the next row.
NextEvent == IF evStatus["e1"] = "absent" THEN "e1" ELSE "e2"

\* Lines 362-371: the handler starts and calls checkRateLimit.
TrackArrive(r) ==
    /\ tr[r].pc = "idle"
    /\ ~rlLocal[r].ret.done
    /\ Len(rlLog) + Cardinality(RlRunning) < MaxSubmissions
    /\ RlBegin(r)

\* trackingEventSchema.parse(body) and the merchantId lookup, lines 390-424:
\* the response they end with, or "ok".
ValidationOutcome(input) ==
    CASE input.body = "notJson" -> "throw"
      [] input.body = "invalid" -> "invalid"
      [] input.merchantId = ""  -> "noMerchant"
      [] OTHER                  -> "ok"

\* Lines 373-424: the rate limiter's answer arrives; 429 when it rejects, else
\* the body is read and validated.
TrackRateLimited(r) ==
    /\ tr[r].pc = "idle"
    /\ rlPc[r] = "idle"
    /\ rlLocal[r].ret.done
    /\ rlLocal' = [rlLocal EXCEPT ![r].ret = NoRet]
    /\ \E input \in Inputs :
        LET ret == rlLocal[r].ret
            t   == [tr EXCEPT ![r].input = input, ![r].rl = ret]
        IN  IF ret.raised
            THEN /\ trLog' = trLog \cup {[input |-> NoInput, resp |-> InternalError,
                                            effects |-> {}, ev |-> "none"]}
                 /\ tr' = tr
            ELSE IF ~ret.allowed
            THEN /\ trLog' = trLog \cup {[input |-> NoInput,
                         resp |-> [Resp(429, "rateLimited") EXCEPT !.resetAt = ret.resetAt],
                         effects |-> {}, ev |-> "none"]}
                 /\ tr' = tr
            ELSE CASE ValidationOutcome(input) = "throw" ->
                        /\ trLog' = trLog \cup {[input |-> input,
                                           resp |-> InternalError, effects |-> {}, ev |-> "none"]}
                        /\ tr' = tr
                   [] ValidationOutcome(input) = "invalid" ->
                        /\ trLog' = trLog \cup {[input |-> input,
                                           resp |-> Resp(400, "invalid"), effects |-> {}, ev |-> "none"]}
                        /\ tr' = tr
                   [] ValidationOutcome(input) = "noMerchant" ->
                        /\ trLog' = trLog \cup {[input |-> input,
                                           resp |-> Resp(400, "noMerchant"),
                                           effects |-> {}, ev |-> "none"]}
                        /\ tr' = tr
                   [] OTHER ->
                        /\ tr' = [t EXCEPT ![r].pc = "findMerchant"]
                        /\ UNCHANGED trLog
    /\ UNCHANGED <<rlZset, rlKeyExpiry, rlPc, rlNextMember, rlLog>>
    /\ UNCHANGED <<envVars, dedupVars, dbVars, queueVars, histVars, sndVars, fnVars,
                   procVars, extVars, monthlyEventCount, monthlyEventLimit, evEventId>>

\* merchant.monthlyEventLimit !== -1 && monthlyEventCount >= monthlyEventLimit
QuotaReached(limit, count) == limit # Unlimited /\ count >= limit

TrFrame ==
    UNCHANGED <<envVars, rlVars, pixelConfigs, evRetryCount, evPlatform, evSentAt,
                evLog, run, manualRetries, histVars, sndVars, fnVars,
                procVars, extVars, monthlyEventLimit>>

\* A record-store operation of the handler throws: the outer catch answers 500.
TrackFault(r) ==
    /\ MayFault
    /\ dbFaults' = dbFaults + 1
    /\ Respond(r, InternalError)
    /\ UNCHANGED <<dedupVars, evStatus, job, monthlyEventCount, evEventId>>

\* A handler that counts the event before it checks the quota.
TrackFindMerchantCountFirst(r) ==
    /\ tr[r].pc = "findMerchant"
    /\ \/ /\ monthlyEventCount' = monthlyEventCount + 1
          /\ IF tr[r].input.merchantId # "m1"
             THEN Respond(r, Resp(404, "unknownMerchant"))
             ELSE IF QuotaReached(monthlyEventLimit, monthlyEventCount)
             THEN Respond(r, Resp(429, "quota"))
             ELSE /\ tr' = [tr EXCEPT ![r].pc = "checkDuplication",
                                      ![r].count = monthlyEventCount]
                  /\ UNCHANGED trLog
          /\ UNCHANGED <<dedupVars, evStatus, job, dbFaults, evEventId>>
       \/ TrackFault(r)
    /\ TrFrame

\* Lines 426-456: prisma.merchant.findUnique; 404 when there is no such
\* merchant, 429 when its monthly count has reached its limit.
TrackFindMerchant(r) ==
    /\ tr[r].pc = "findMerchant"
    /\ \/ /\ IF tr[r].input.merchantId # "m1"
             THEN Respond(r, Resp(404, "unknownMerchant"))
             ELSE IF QuotaReached(monthlyEventLimit, monthlyEventCount)
             THEN Respond(r, Resp(429, "quota"))
             ELSE /\ tr' = [tr EXCEPT ![r].pc = "checkDuplication",
                                      ![r].count = monthlyEventCount]
                  /\ UNCHANGED trLog
          /\ UNCHANGED <<dedupVars, evStatus, job, dbFaults, monthlyEventCount,
                         evEventId>>
       \/ TrackFault(r)
    /\ TrFrame

\* Lines 458-490: generateEventId and checkDuplication({eventId}); a duplicate
\* is answered with success and duplicate: true.
TrackCheckDuplication(r) ==
    /\ tr[r].pc = "checkDuplication"
    /\ LET fp   == tr[r].input.eventId
           sent == ~GetRedisThrows /\ redisUp
           s    == SetExNX(dedupKeys, fp, now, DefaultWindowSeconds)
           res  == IF GetRedisThrows THEN "raised"
                   ELSE IF ~redisUp THEN DedupCatch
                   ELSE DedupResult(s.reply)
       IN  /\ dedupKeys' = IF sent THEN s.keys ELSE dedupKeys
           /\ CASE res = "raised" -> Respond(r, InternalError)
                [] res = "dup" -> Respond(r, [Resp(200, "duplicate") EXCEPT !.ev = fp])
                [] OTHER ->
                     /\ tr' = [tr EXCEPT ![r].pc = "create",
                                  ![r].effects = IF sent /\ s.reply = "OK"
                                                 THEN @ \cup {"dedupKey"} ELSE @]
                     /\ UNCHANGED trLog
    /\ UNCHANGED <<dedupInflight, dedupLog, evStatus, job, dbFaults,
                   monthlyEventCount, evEventId>>
    /\ TrFrame

\* Lines 492-516: prisma.trackingEvent.create({... status: 'pending'})
TrackCreate(r) ==
    /\ tr[r].pc = "create"
    /\ \/ /\ evStatus[NextEvent] = "absent"
          /\ evStatus' = [evStatus EXCEPT ![NextEvent] = "pending"]
          /\ evEventId' = [evEventId EXCEPT ![NextEvent] = tr[r].input.eventId]
          /\ tr' = [tr EXCEPT ![r].pc = "increment", ![r].ev = NextEvent,
                              ![r].effects = @ \cup {"record"}]
          /\ UNCHANGED <<dedupVars, job, dbFaults, monthlyEventCount, trLog>>
       \/ TrackFault(r)
    /\ TrFrame

\* Lines 518-526: prisma.merchant.update({monthlyEventCount: {increment: 1}})
TrackIncrement(r) ==
    /\ tr[r].pc = "increment"
    /\ \/ /\ monthlyEventCount' = monthlyEventCount + 1
          /\ tr' = [tr EXCEPT ![r].pc = "queueEvent",
                              ![r].effects = @ \cup {"count"}]
          /\ UNCHANGED <<dedupVars, evStatus, job, dbFaults, evEventId, trLog>>
       \/ TrackFault(r)
    /\ TrFrame

\* Lines 528-549: queueEvent({trackingEventId: trackingEvent.id, merchantId})
\* and the 202 response.
TrackQueueEvent(r) ==
    /\ tr[r].pc = "queueEvent"
    /\ job' = [job EXCEPT ![JobId(tr[r].ev)] = QueueAdd(job[JobId(tr[r].ev)], tr[r].ev)]
    /\ tr' = [tr EXCEPT ![r] = TrIdleRec]
    /\ trLog' = trLog \cup {[input |-> tr[r].input,
                   resp |-> [Resp(202, "accepted") EXCEPT !.ev = tr[r].ev,
                                 !.remaining = tr[r].rl.remaining,
                                 !.resetAt = tr[r].rl.resetAt],
                   effects |-> tr[r].effects \cup {"job"}, ev |-> tr[r].ev]}
    /\ UNCHANGED <<dedupVars, evStatus, dbFaults, monthlyEventCount, evEventId>>
    /\ TrFrame

Track(r) ==
    \/ TrackRateLimited(r)
    \/ TrackFindMerchant(r)
    \/ TrackCheckDuplication(r)
    \/ TrackCreate(r)
    \/ TrackIncrement(r)
    \/ TrackQueueEvent(r)

----------------------------------------------------------------------------
(* Webhook endpoint: POST /api/webhooks/whop *)

MaxWebhooks == 2

\* whopWebhookSchema.event: z.enum([...])
WhopSchemaEvents ==
    {"payment.succeeded", "payment.failed", "membership.created",
     "membership.renewed", "membership.cancelled", "checkout.completed"}

\* What a webhook request carries: the x-whop-signature header (absent, the
\* HMAC of the body under the secret, or anything else), the event name and
\* data.user_id of the body; whether WHOP_WEBHOOK_SECRET is set.
WebhookInputs ==
    [signature : {"none", "valid", "invalid"},
     secret    : BOOLEAN,
     event     : {"payment.succeeded", "payment_succeeded", "membership.created",
                  "app_membership_went_valid"},
     user      : {"m1", "unknown"}]

\* verifyWebhookSignature(rawBody, signature, secret): timingSafeEqual of the
\* header and 'sha256=' + HMAC; a header of another length makes it throw,
\* which is caught and answered false.
verifyWebhookSignatureAny(signature) == TRUE

verifyWebhookSignature(signature) == signature = "valid"

\* The switch on the event name, lines 95-208: what the handler does with it.
WhopSwitch(event) ==
    CASE event \in {"payment_succeeded", "membership_went_valid",
                    "membership_experience_claimed", "payment_pending"} -> "track"
      [] event = "app_payment_succeeded" -> "appPayment"
      [] event = "app_membership_went_valid" -> "activate"
      [] event = "app_membership_went_invalid" -> "deactivate"
      [] event \in {"payment_failed", "membership_went_invalid",
                    "membership_cancel_at_period_end_changed"} -> "logged"
      [] OTHER -> "unknown"

\* TIER_CONFIGS.free.eventLimit: the tier of a product id that is not in
\* productTierMap.
FreeEventLimit == 20

\* NextResponse.json(...): the handler returns.
WhRespond(status, kind, effects, ev) ==
    wh' = [pc |-> "idle",
           log |-> wh.log \cup {[input |-> wh.input, status |-> status, kind |-> kind,
                                 effects |-> effects, ev |-> ev]}]

WhFrame ==
    UNCHANGED <<envVars, dedupVars, rlVars, pixelConfigs, evRetryCount, evPlatform,
                evSentAt, evLog, run, manualRetries, histVars, sndVars, tr, trLog,
                fnVars, procVars, bq>>

WhStore == <<evStatus, evEventId, job, monthlyEventCount, monthlyEventLimit>>

\* Lines 17-24: a request arrives, the raw body and the header are read.
WhArrive(input) ==
    /\ wh.pc = "idle"
    /\ Cardinality(wh.log) < MaxWebhooks
    /\ wh' = [pc |-> "verify", log |-> wh.log, input |-> input]
    /\ UNCHANGED <<WhStore, dbFaults>>
    /\ WhFrame

\* Lines 26-53: 401 without the header, 500 without the secret, 401 when the
\* signature does not verify.
WhVerify ==
    /\ wh.pc = "verify"
    /\ IF wh.input.signature = "none" THEN WhRespond(401, "missingSignature", {}, "none")
       ELSE IF ~wh.input.secret THEN WhRespond(500, "notConfigured", {}, "none")
       ELSE IF ~verifyWebhookSignature(wh.input.signature)
       THEN WhRespond(401, "invalidSignature", {}, "none")
       ELSE wh' = [wh EXCEPT !.pc = "parse"]
    /\ UNCHANGED <<WhStore, dbFaults>>
    /\ WhFrame

\* Lines 55-70: whopWebhookSchema.parse(body); 400 on a ZodError.
WhParse ==
    /\ wh.pc = "parse"
    /\ IF wh.input.event \notin WhopSchemaEvents
       THEN WhRespond(400, "invalidPayload", {}, "none")
       ELSE wh' = [wh EXCEPT !.pc = "findMerchant"]
    /\ UNCHANGED <<WhStore, dbFaults>>
    /\ WhFrame

\* Lines 77-90: prisma.merchant.findUnique({whopUserId: data.user_id}); 200
\* 'Merchant not found' for an unknown user; 500 when the lookup throws.
WhFindMerchant ==
    /\ wh.pc = "findMerchant"
    /\ \/ /\ IF wh.input.user # "m1"
             THEN WhRespond(200, "merchantNotFound", {}, "none")
             ELSE wh' = [wh EXCEPT !.pc = "switch"]
          /\ UNCHANGED dbFaults
       \/ /\ MayFault
          /\ dbFaults' = dbFaults + 1
          /\ WhRespond(500, "internal", {}, "none")
    /\ UNCHANGED WhStore
    /\ WhFrame

\* Lines 92-238: the switch; a tracked kind creates the trackingEvent with
\* eventSource webhook and status pending and calls queueEvent with its id;
\* the app subscription kinds update the merchant; the others are
\* acknowledged.
WhSwitch ==
    /\ wh.pc = "switch"
    /\ LET what == WhopSwitch(wh.input.event)
           e == NextEvent
       IN  CASE what = "track" ->
                    /\ evStatus[e] = "absent"
                    /\ evStatus' = [evStatus EXCEPT ![e] = "pending"]
                    /\ evEventId' = [evEventId EXCEPT ![e] = "whop"]
                    /\ job' = [job EXCEPT ![JobId(e)] = QueueAdd(job[JobId(e)], e)]
                    /\ WhRespond(200, "processed", {"record", "job"}, e)
                    /\ UNCHANGED <<monthlyEventCount, monthlyEventLimit>>
             [] what = "activate" ->
                    /\ monthlyEventLimit' = FreeEventLimit
                    /\ monthlyEventCount' = 0
                    /\ WhRespond(200, "activated", {"merchant"}, "none")
                    /\ UNCHANGED <<evStatus, evEventId, job>>
             [] what = "deactivate" ->
                    /\ monthlyEventLimit' = FreeEventLimit
                    /\ WhRespond(200, "deactivated", {"merchant"}, "none")
                    /\ UNCHANGED <<evStatus, evEventId, job, monthlyEventCount>>
             [] OTHER ->
                    /\ WhRespond(200, what, {}, "none")
                    /\ UNCHANGED WhStore
    /\ UNCHANGED dbFaults
    /\ WhFrame

----------------------------------------------------------------------------
(* Browser tracker: the offline queue of the tracking script
   (src/unnamed/part_000). The script runs on one page; its handlers run one
   at a time, a fetch is answered in a later handler. *)

MaxTracked == 2
MaxProcessRuns == 5

\* config.retryAttempts
retryAttempts == 3

\* event.timestamp of the events tracked, in the order of tracking.
Timestamps == 1..MaxTracked

\* eventQueue.add: queue.push({event, timestamp, attempts: 0}); setItem
eventQueueAdd(store, ts) == Append(store, [ts |-> ts, attempts |-> 0])

\* eventQueue.remove: queue.splice(index, 1); setItem (index from 1 here)
eventQueueRemove(store, index) ==
    IF index \in 1..Len(store)
    THEN SubSeq(store, 1, index - 1) \o SubSeq(store, index + 1, Len(store))
    ELSE store

\* sendEvent, after a retry was sent: the first stored item with the event's
\* timestamp is removed.
RemoveSent(store, ts) ==
    IF \E i \in 1..Len(store) : store[i].ts = ts
    THEN eventQueueRemove(store,
             CHOOSE i \in 1..Len(store) :
                 /\ store[i].ts = ts
                 /\ \A k \in 1..(i-1) : store[k].ts # ts)
    ELSE store

\* eventQueue.process, the loop from index i down: queue is the array parsed
\* at the start, store what localStorage holds, beacon the indices whose
\* sendBeacon call returns true. item.attempts++ changes the parsed array
\* only; nothing writes it to localStorage.
RECURSIVE ProcessFrom(_, _, _, _)
ProcessFrom(store, queue, i, beacon) ==
    IF i = 0 THEN [store |-> store, resent |-> {}]
    ELSE IF queue[i].attempts >= retryAttempts
    THEN ProcessFrom(eventQueueRemove(store, i), queue, i - 1, beacon)
    ELSE LET rest == ProcessFrom(IF i \in beacon
                                 THEN RemoveSent(store, queue[i].ts)
                                 ELSE store,
                                 queue, i - 1, beacon)
         IN  [rest EXCEPT !.resent = @ \cup {i}]

BqFrame == UNCHANGED <<envVars, dedupVars, rlVars, dbVars, queueVars, histVars,
                       sndVars, trVars, fnVars, procVars, wh>>

\* sendEvent(event, false): sendBeacon, or a fetch that is answered later.
SendFirst(inflight, ts, beaconSent) ==
    IF beaconSent THEN inflight
    ELSE inflight \cup {[ts |-> ts, isRetry |-> FALSE, n |-> 0]}

\* pixelFlow.init: trackPageView(), eventQueue.process() on the queue of a
\* first visit, setInterval.
BqInit ==
    /\ bq = BqIdle
    /\ \E beaconSent \in BOOLEAN :
          bq' = [pc |-> "loaded", store |-> <<>>,
                 inflight |-> SendFirst({}, 1, beaconSent),
                 resends |-> [ts \in Timestamps |-> 0],
                 delivered |-> {}, tracked |-> 1, runs |-> 1]
    /\ BqFrame

\* pixelFlow.track(eventName, eventData)
BqTrack ==
    /\ bq.pc = "loaded"
    /\ bq.tracked < MaxTracked
    /\ \E beaconSent \in BOOLEAN :
          bq' = [bq EXCEPT !.tracked = @ + 1,
                           !.inflight = SendFirst(@, bq.tracked + 1, beaconSent)]
    /\ BqFrame

\* The interval callback: eventQueue.process()
BqProcess ==
    /\ bq.pc = "loaded"
    /\ bq.runs < MaxProcessRuns
    /\ \E beacon \in SUBSET (1..Len(bq.store)) :
          LET queue == bq.store
              done  == ProcessFrom(bq.store, queue, Len(queue), beacon)
              count == [ts \in Timestamps |->
                           bq.resends[ts] +
                               Cardinality({i \in done.resent : queue[i].ts = ts})]
          IN  bq' = [bq EXCEPT
                       !.runs = @ + 1,
                       !.store = done.store,
                       !.resends = count,
                       !.delivered = @ \cup {queue[i].ts : i \in done.resent \cap beacon},
                       !.inflight = @ \cup
                           {[ts |-> queue[i].ts, isRetry |-> TRUE,
                             n |-> count[queue[i].ts]] :
                               i \in done.resent \ beacon}]
    /\ BqFrame

\* fetch(...).then with response.ok
BqFetchOk ==
    /\ bq.pc = "loaded"
    /\ \E m \in bq.inflight :
          bq' = [bq EXCEPT
                   !.inflight = @ \ {m},
                   !.store = IF m.isRetry THEN RemoveSent(@, m.ts) ELSE @,
                   !.delivered = IF m.isRetry THEN @ \cup {m.ts} ELSE @]
    /\ BqFrame

\* fetch(...) rejected or answered with an error status: .catch
BqFetchFail ==
    /\ bq.pc = "loaded"
    /\ \E m \in bq.inflight :
          bq' = [bq EXCEPT
                   !.inflight = @ \ {m},
                   !.store = IF m.isRetry THEN @ ELSE eventQueueAdd(@, m.ts)]
    /\ BqFrame

----------------------------------------------------------------------------
(* Strings and the event fingerprint: src/lib/crypto.ts *)

\* No pure function is being followed.
FxIdle == [fn |-> "none"]

\* A string is a sequence of characters. The UTF-16 code units of the
\* characters that occur, by which JavaScript compares strings.
Code == [c \in {" ", ",", "0", "1", "2", "3", "4", "5", "6", "7", "8", "9",
                "@", "B", "M", "P", "a", "b", "m", "p", "u", "|", "+", "-"} |->
           CASE c = " " -> 32 [] c = "+" -> 43 [] c = "," -> 44 [] c = "-" -> 45
             [] c = "0" -> 48 [] c = "1" -> 49 [] c = "2" -> 50 [] c = "3" -> 51
             [] c = "4" -> 52 [] c = "5" -> 53 [] c = "6" -> 54 [] c = "7" -> 55
             [] c = "8" -> 56 [] c = "9" -> 57 [] c = "@" -> 64 [] c = "B" -> 66
             [] c = "M" -> 77 [] c = "P" -> 80 [] c = "a" -> 97 [] c = "b" -> 98
             [] c = "m" -> 109 [] c = "p" -> 112 [] c = "u" -> 117 [] c = "|" -> 124]

DigitChars == <<"0", "1", "2", "3", "4", "5", "6", "7", "8", "9">>
IsDigit(c) == \E i \in 1..10 : DigitChars[i] = c

\* String.prototype.toLowerCase
LowerChar(c) ==
    CASE c = "B" -> "b" [] c = "M" -> "m" [] c = "P" -> "p" [] OTHER -> c

ToLowerCase(str) == [i \in 1..Len(str) |-> LowerChar(str[i])]

RECURSIVE TrimStart(_)
TrimStart(str) ==
    IF str # <<>> /\ Head(str) = " " THEN TrimStart(Tail(str)) ELSE str

RECURSIVE TrimEnd(_)
TrimEnd(str) ==
    IF str # <<>> /\ str[Len(str)] = " "
    THEN TrimEnd(SubSeq(str, 1, Len(str) - 1)) ELSE str

\* String.prototype.trim
Trim(str) == TrimEnd(TrimStart(str))

\* String(n) for a natural number
RECURSIVE NumStr(_)
NumStr(n) ==
    IF n < 10 THEN <<DigitChars[n + 1]>>
    ELSE NumStr(n \div 10) \o <<DigitChars[(n % 10) + 1]>>

\* Array.prototype.join
RECURSIVE Join(_, _)
Join(strs, sep) ==
    IF strs = <<>> THEN <<>>
    ELSE IF Len(strs) = 1 THEN strs[1]
    ELSE strs[1] \o sep \o Join(Tail(strs), sep)

\* a < b in the order of UTF-16 code units
RECURSIVE StrLess(_, _)
StrLess(a, b) ==
    IF b = <<>> THEN FALSE
    ELSE IF a = <<>> THEN TRUE
    ELSE IF Head(a) = Head(b) THEN StrLess(Tail(a), Tail(b))
    ELSE Code[Head(a)] < Code[Head(b)]

RECURSIVE InsertSorted(_, _)
InsertSorted(x, strs) ==
    IF strs = <<>> THEN <<x>>
    ELSE IF StrLess(Head(strs), x) \/ Head(strs) = x
    THEN <<Head(strs)>> \o InsertSorted(x, Tail(strs))
    ELSE <<x>> \o strs

RECURSIVE SortStrings(_)
SortStrings(strs) ==
    IF strs = <<>> THEN <<>>
    ELSE InsertSorted(strs[Len(strs)], SortStrings(SubSeq(strs, 1, Len(strs) - 1)))

\* An array left in the order it has.
SortNot(strs) == strs

\* Array.prototype.sort() without a compare function: the elements in the
\* order of their code units.
Sort(strs) == SortStrings(strs)

\* sha256(...).digest('hex') of a string: a value that is no string of the
\* model and is equal for equal strings only.
Sha256Hex(str) == <<"sha256">> \o str

\* hashSHA256(input): '' for an empty input, else the digest of the input
\* lowercased and trimmed.
hashSHA256(input) ==
    IF input = <<>> THEN <<>> ELSE Sha256Hex(Trim(ToLowerCase(input)))

\* An optional parameter that is not given.
Undef == <<"undefined">>
NoValue == -1

\* x || '' for a string
OrEmpty(x) == IF x = Undef THEN <<>> ELSE x

\* contentIds || []
OrEmptyArray(x) == IF x = Undef THEN <<>> ELSE x

\* The width of the time bucket, ms.
BucketMs == 5000

\* The timestamp as it is.
TimestampNotRounded(timestamp) == timestamp

\* Math.floor(timestamp / 5000) * 5000
RoundedTimestamp(timestamp) == (timestamp \div BucketMs) * BucketMs

\* Lines 59-68: the string that is hashed.
DataString(params) ==
    Join(<< params.merchantId,
            params.eventName,
            OrEmpty(params.userId),
            OrEmpty(params.orderId),
            NumStr(RoundedTimestamp(params.timestamp)),
            IF params.value = NoValue \/ params.value = 0
                THEN <<>> ELSE NumStr(params.value),
            Join(Sort(OrEmptyArray(params.contentIds)), <<",">>) >>, <<"|">>)

\* generateEventId(params): the key it returns
generateEventId(params) == hashSHA256(DataString(params))

\* The params object after generateEventId(params) has returned:
\* (contentIds || []).sort() sorts the caller's array in place.
ParamsAfter(params) ==
    IF params.contentIds = Undef THEN params
    ELSE [params EXCEPT !.contentIds = Sort(params.contentIds)]

\* The calls followed: the endpoint's, for a submission, and another one.
EventIdContentIds ==
    {Undef, <<>>, << <<"a">>, <<"b">> >>, << <<"b">>, <<"a">> >>,
     << <<"B">>, <<"a">>, <<"1", "0">> >>, << <<"1", "0">>, <<"a">>, <<"B">> >>}

EventIdParams ==
    [merchantId : {<<"m">>, <<"M", "1">>},
     eventName  : {<<"P">>},
     userId     : {Undef, <<"u">>},
     orderId    : {Undef},
     timestamp  : {4999, 5000, 9999},
     value      : {NoValue, 5},
     contentIds : EventIdContentIds]

GxInit ==
    \E a, b \in EventIdParams :
        fx = [fn |-> "generateEventId",
              submitted |-> a, params |-> a, key |-> Undef, pc |-> "start",
              stored |-> Undef, contentId |-> Undef,
              otherSubmitted |-> b, otherKey |-> Undef]

GxFrame == UNCHANGED <<envVars, dedupVars, rlVars, dbVars, queueVars, histVars,
                       sndVars, trVars, procVars, extVars>>

\* page.tsx:467-475: const eventId = generateEventId({..., contentIds:
\* validatedData.contentIds})
GxCall ==
    /\ fx.fn = "generateEventId" /\ fx.pc = "start"
    /\ fx' = [fx EXCEPT !.key = generateEventId(fx.params),
                        !.params = ParamsAfter(fx.params),
                        !.pc = "called"]
    /\ GxFrame

\* generateEventId called elsewhere (another node, another call).
GxCallOther ==
    /\ fx.fn = "generateEventId" /\ fx.otherKey = Undef
    /\ fx' = [fx EXCEPT !.otherKey = generateEventId(fx.otherSubmitted)]
    /\ GxFrame

\* page.tsx:493-509: prisma.trackingEvent.create({... contentIds:
\* validatedData.contentIds || []})
GxCreate ==
    /\ fx.fn = "generateEventId" /\ fx.pc = "called"
    /\ fx' = [fx EXCEPT !.stored = OrEmptyArray(fx.params.contentIds),
                        !.pc = "created"]
    /\ GxFrame

\* pixel-sender.ts:279-282: properties.content_id = event.contentIds[0]
GxTikTokContentId ==
    /\ fx.fn = "generateEventId" /\ fx.pc = "created"
    /\ fx' = [fx EXCEPT !.contentId = IF Len(fx.stored) > 0 THEN fx.stored[1]
                                      ELSE Undef,
                        !.pc = "sent"]
    /\ GxFrame

\* Calls of one time bucket whose fields differ in the ways that a key must
\* tell apart: a value of 0 or none, a user id that is empty or not given, ids
\* that differ in letter case, fields that hold the separators.
DistinctEventIdParams ==
    [merchantId : {<<"m">>, <<"M">>},
     eventName  : {<<"P">>},
     userId     : {Undef, <<>>, <<"u">>, <<"u", "|">>},
     orderId    : {Undef, <<"|">>},
     timestamp  : {5000},
     value      : {NoValue, 0, 5},
     contentIds : {Undef, <<>>, << <<"a">>, <<"b">> >>, << <<"a", ",", "b">> >>}]

GxInitDistinct ==
    \E a, b \in DistinctEventIdParams :
        fx = [fn |-> "generateEventId",
              submitted |-> a, params |-> a, key |-> Undef, pc |-> "start",
              stored |-> Undef, contentId |-> Undef,
              otherSubmitted |-> b, otherKey |-> Undef]

----------------------------------------------------------------------------
(* Hashed identity fields of the outbound payloads: src/lib/crypto.ts,
   src/lib/services/pixel-sender.ts *)

\* A column of the record that holds null.
Null == <<"null">>

\* if (x) for a string column: not null, not undefined, not ''.
Truthy(x) == x \notin {Null, Undef, <<>>}

\* hashEmail(email)
hashEmail(email) == IF email = <<>> THEN <<>> ELSE hashSHA256(email)

\* phone.replace(/\D/g, '')
RemoveNonDigits(phone) == SelectSeq(phone, IsDigit)

hashPhoneAsGiven(phone) == IF phone = <<>> THEN <<>> ELSE hashSHA256(phone)

\* hashPhone(phone)
hashPhone(phone) ==
    IF phone = <<>> THEN <<>> ELSE hashSHA256(RemoveNonDigits(phone))

\* A field that is set under a condition; JSON.stringify leaves out one that
\* was never set.
SetIf(cond, v) == IF cond THEN v ELSE Undef

\* sendToFacebook: the payload that is posted (the fields that come from the
\* event's identity and custom data).
FacebookPayload(event) ==
    [platform    |-> "facebook",
     event_id    |-> event.id,
     user_data   |-> [em          |-> SetIf(Truthy(event.email), hashEmail(event.email)),
                      ph          |-> SetIf(Truthy(event.phone), hashPhone(event.phone)),
                      external_id |-> SetIf(Truthy(event.userId), event.userId)],
     custom_data |-> event.customData]

\* sendToTikTok: the payload that is posted.
TikTokPayload(event) ==
    [platform   |-> "tiktok",
     event_id   |-> event.id,
     user       |-> [email        |-> SetIf(Truthy(event.email), hashEmail(event.email)),
                     phone_number |-> SetIf(Truthy(event.phone), hashPhone(event.phone)),
                     external_id  |-> SetIf(Truthy(event.userId), event.userId)],
     properties |-> event.customData]

PayloadOf(platform, event) ==
    IF platform = "facebook" THEN FacebookPayload(event) ELSE TikTokPayload(event)

\* The events whose payloads are followed: email and phone as the endpoint
\* stores them (z.string().email().optional(), z.string().optional()).
PiiEmails == {Null, <<"b", "@", "b">>, <<"B", "@", "b">>, <<"a", "@", "b">>}
PiiPhones == {Null, <<>>, <<"+", "1", "5">>, <<"1", "-", "5">>, <<"1", "5">>,
              <<"5", "1">>, <<"a">>}

PiiEvents ==
    [id         : {"e1"},
     email      : PiiEmails,
     phone      : PiiPhones,
     userId     : {Null, <<"u">>},
     customData : {Undef}]

PxInit ==
    \E a, b \in PiiEvents, platform \in {"facebook", "tiktok"} :
        fx = [fn |-> "payload", platform |-> platform,
              event |-> a, sent |-> FALSE, payload |-> Undef,
              other |-> b, otherSent |-> FALSE, otherPayload |-> Undef]

\* body: JSON.stringify(payload) of the fetch call, for the event
PxSend ==
    /\ fx.fn = "payload" /\ ~fx.sent
    /\ fx' = [fx EXCEPT !.payload = PayloadOf(fx.platform, fx.event), !.sent = TRUE]
    /\ GxFrame

\* and for another event
PxSendOther ==
    /\ fx.fn = "payload" /\ ~fx.otherSent
    /\ fx' = [fx EXCEPT !.otherPayload = PayloadOf(fx.platform, fx.other),
                        !.otherSent = TRUE]
    /\ GxFrame

----------------------------------------------------------------------------
(* Event names of the platforms: src/lib/event-mapping.ts *)

StandardEventNames ==
    {"PageView", "ViewContent", "AddToCart", "InitiateCheckout", "Purchase",
     "Subscribe", "StartTrial", "CompleteRegistration", "Lead", "Search"}

FACEBOOK_EVENT_MAP == [n \in StandardEventNames |-> n]

TIKTOK_EVENT_MAP ==
    [n \in StandardEventNames |->
        CASE n = "Purchase" -> "CompletePayment"
          [] n = "Lead" -> "SubmitForm"
          [] OTHER -> n]

GA4_EVENT_MAP ==
    [n \in StandardEventNames |->
        CASE n = "PageView" -> "page_view"
          [] n = "ViewContent" -> "view_item"
          [] n = "AddToCart" -> "add_to_cart"
          [] n = "InitiateCheckout" -> "begin_checkout"
          [] n = "Purchase" -> "purchase"
          [] n = "Subscribe" -> "subscribe"
          [] n = "StartTrial" -> "start_trial"
          [] n = "CompleteRegistration" -> "sign_up"
          [] n = "Lead" -> "generate_lead"
          [] n = "Search" -> "search"]

\* JavaScript values: a string, undefined, and a member that an object
\* literal inherits from Object.prototype (a function, or the prototype).
JsString(str) == [type |-> "string", value |-> str]
JsUndefined == [type |-> "undefined", value |-> ""]
JsInherited(key) == [type |-> "object", value |-> key]

\* Keys that every object literal answers through its prototype.
ObjectPrototypeKeys == {"constructor", "toString", "valueOf", "__proto__"}

\* map[key] on an object literal
Member(map, key) ==
    IF key \in DOMAIN map THEN JsString(map[key])
    ELSE IF key \in ObjectPrototypeKeys THEN JsInherited(key)
    ELSE JsUndefined

\* x || y
JsOr(x, y) == IF x = JsUndefined \/ x = JsString("") THEN y ELSE x

\* mapEventName(standardName, platform)
mapEventName(standardName, platform) ==
    CASE platform = "facebook" ->
             JsOr(Member(FACEBOOK_EVENT_MAP, standardName), JsString(standardName))
      [] platform = "tiktok" ->
             JsOr(Member(TIKTOK_EVENT_MAP, standardName), JsString(standardName))
      [] platform = "google" ->
             JsOr(Member(GA4_EVENT_MAP, standardName), JsString(standardName))
      [] OTHER -> JsString(standardName)

\* JSON.stringify of the payload field that holds the name: a property whose
\* value is a function is left out.
StringifiedName(v) ==
    CASE v.type = "string" -> v
      [] v.type = "object" /\ v.value = "__proto__" -> JsInherited("{}")
      [] OTHER -> JsUndefined

\* The event names followed: trackingEventSchema takes any non-empty string.
EventNames ==
    StandardEventNames \cup {"Refund", "custom_event"} \cup ObjectPrototypeKeys

MappingPlatforms == {"facebook", "tiktok", "google"}

MxInit ==
    \E n \in EventNames, platform \in MappingPlatforms :
        fx = [fn |-> "mapEventName", standardName |-> n, platform |-> platform,
              pc |-> "start", name |-> JsUndefined, sent |-> JsUndefined]

\* event_name: mapEventName(event.eventName, platform)
MxCall ==
    /\ fx.fn = "mapEventName" /\ fx.pc = "start"
    /\ fx' = [fx EXCEPT !.name = mapEventName(fx.standardName, fx.platform),
                        !.pc = "mapped"]
    /\ GxFrame

\* body: JSON.stringify(payload)
MxStringify ==
    /\ fx.fn = "mapEventName" /\ fx.pc = "mapped"
    /\ fx' = [fx EXCEPT !.sent = StringifiedName(fx.name), !.pc = "sent"]
    /\ GxFrame

----------------------------------------------------------------------------
(* Specification of the duplicate suppressor *)

InitDedup == EnvInit /\ DedupInit /\ RlInit /\ WkIdle /\ sx = SxIdle /\ fx = FxIdle /\ TrIdle

NextDedup ==
    \/ \E fp \in Fingerprints : DedupInvoke(fp)
    \/ \E fp \in Fingerprints : DedupExec(fp)
    \/ DedupTick
    \/ DedupRedisToggle

SpecDedup == InitDedup /\ [][NextDedup]_vars

----------------------------------------------------------------------------
(* Specifications of the admission controller: concurrent callers, and
   callers that call one after the other *)

InitRate == EnvInit /\ DedupInit /\ RlInit /\ WkIdle /\ sx = SxIdle /\ fx = FxIdle /\ TrIdle

RlSteps5(c) ==
    \/ RlZrem(c)
    \/ RlZcard(c)
    \/ RlZrange(c)
    \/ RlZadd(c)
    \/ RlExpire(c)

NextRate ==
    \/ \E c \in Callers : RlBegin(c)
    \/ \E c \in Callers : RlSteps5(c)
    \/ RlTick
    \/ RlRedisToggle

SpecRate == InitRate /\ [][NextRate]_vars

NextRateSeq ==
    \/ \E c \in Callers : RlBeginSeq(c)
    \/ \E c \in Callers : RlSteps5(c)
    \/ RlTick
    \/ RlRedisToggle

SpecRateSeq == InitRate /\ [][NextRateSeq]_vars

----------------------------------------------------------------------------
(* Specification of the delivery queue and the dispatch workers *)

InitWorker == EnvInit /\ DedupInit /\ RlInit /\ WkInit /\ sx = SxIdle /\ fx = FxIdle /\ TrIdle

Processor(w) ==
    \/ WMarkProcessing(w)
    \/ WLoadAndFanOut(w)
    \/ WAllSettled(w)
    \/ WMarkCompleted(w)
    \/ WCatchIncr(w)
    \/ WCatchMarkFailed(w)

Sender(w, c) ==
    \/ SenderResponse(w, c)
    \/ SenderRecord(w, c)
    \/ SenderLog(w, c)

NextWorker ==
    \/ \E e \in Events : queueEvent(e)
    \/ \E w \in Workers, id \in JobIds : WPick(w, id)
    \/ \E w \in Workers : Processor(w)
    \/ \E w \in Workers, c \in ConfigIds : Sender(w, c)
    \/ \E w \in Workers : WorkerCrash(w)
    \/ \E id \in JobIds : QPromote(id)
    \/ retryFailedJobs

SpecWorker == InitWorker /\ [][NextWorker]_vars

----------------------------------------------------------------------------
(* Specification of the worker processes under shutdown signals: the workers
   of SpecWorker, each of which may receive SIGTERM or SIGINT at any moment.
   No process dies otherwise. A
   step of a processor, of a sender or of the shutdown that stays possible
   is eventually taken (the event loop runs every pending continuation). *)

\* The merchant's configs: at most one of them is sent to.
ShutdownConfigTables ==
    {t \in ConfigTables : ~(t["c2"].isActive /\ t["c2"].conversionApiEnabled)}

InitShutdown ==
    /\ EnvInit /\ DedupInit /\ RlInit
    /\ pixelConfigs \in ShutdownConfigTables
    /\ evStatus = [e \in Events |-> IF e = "e1" THEN "pending" ELSE "absent"]
    /\ WkEmpty
    /\ sx = SxIdle /\ fx = FxIdle /\ TrIdle

Shutdown(w) ==
    \/ WClose(w)
    \/ WExit(w)

ShutdownProgress ==
    \/ \E w \in Workers : Processor(w)
    \/ \E w \in Workers, c \in ConfigIds : Sender(w, c)
    \/ \E w \in Workers : Shutdown(w)

NextShutdown ==
    \/ \E e \in Events : queueEvent(e)
    \/ \E w \in Workers, id \in JobIds : WPick(w, id)
    \/ \E id \in JobIds : QPromote(id)
    \/ \E w \in Workers : WSignal(w)
    \/ ShutdownProgress

SpecShutdown == InitShutdown /\ [][NextShutdown]_vars /\ WF_vars(ShutdownProgress)

----------------------------------------------------------------------------
(* Specification of the delivery queue with callers that enqueue an event
   again: the same workers, for a merchant with two complete configs or with
   none active *)

QueueConfigTables ==
    {t \in ConfigTables :
        /\ t["c1"].platform # t["c2"].platform
        /\ \A c \in ConfigIds : t[c].conversionApiEnabled /\ t[c].accessToken}

InitQueue ==
    /\ InitWorker
    /\ pixelConfigs \in QueueConfigTables

NextQueue ==
    \/ NextWorker
    \/ \E e \in Events : queueEventAgain(e)

SpecQueue == InitQueue /\ [][NextQueue]_vars

----------------------------------------------------------------------------
(* Specification of one sender invocation *)

InitSender == EnvInit /\ DedupInit /\ RlInit /\ WkIdle /\ SxInit /\ fx = FxIdle /\ TrIdle

NextSender ==
    \/ SxStart
    \/ SxResponse
    \/ SxRecord
    \/ SxLog

SpecSender == InitSender /\ [][NextSender]_vars

----------------------------------------------------------------------------
(* Specification of the ingestion endpoint: requests arrive concurrently, each
   with any body, for the existing merchant, an unknown one or none; the
   record store may throw. Nothing is delivered here. *)

InitTrack == EnvInit /\ DedupInit /\ RlInit /\ WkIdle /\ sx = SxIdle /\ fx = FxIdle /\ TrInit

NextTrack ==
    \/ \E r \in Callers : TrackArrive(r)
    \/ \E r \in Callers : RlSteps5(r)
    \/ \E r \in Callers : Track(r)

SpecTrack == InitTrack /\ [][NextTrack]_vars

----------------------------------------------------------------------------
(* Specification of the whole pipeline on its good path: submissions reach the
   endpoint, the workers deliver the accepted ones; REDIS_URL is set, the
   record store answers every operation, the merchant has one active, enabled
   config with a token and the platform accepts every call; fewer requests
   arrive than the rate limit allows. No worker crashes. Every step that can be taken is eventually taken. *)

E2EConfigTables ==
    { [c \in ConfigIds |-> IF c = "c1" THEN Row("facebook", TRUE, TRUE, TRUE)
                                        ELSE Row("tiktok", FALSE, TRUE, TRUE)],
      [c \in ConfigIds |-> IF c = "c1" THEN Row("tiktok", TRUE, TRUE, TRUE)
                                        ELSE Row("facebook", FALSE, TRUE, TRUE)] }

InitE2E ==
    /\ EnvInit /\ envRedisUrl
    /\ DedupInit /\ RlInit
    /\ pixelConfigs \in E2EConfigTables
    /\ evStatus = [e \in Events |-> "absent"]
    /\ evRetryCount = [e \in Events |-> 0]
    /\ evPlatform = [e \in Events |-> [p \in Platforms |-> "null"]]
    /\ evSentAt = [e \in Events |-> [p \in Platforms |-> NoSentAt]]
    /\ evLog = [e \in Events |-> {}]
    /\ dbFaults = MaxDbFaults
    /\ wproc = [w \in Workers |-> "running"]
    /\ heldAtSignal = [w \in Workers |-> "none"]
    /\ wh = WhIdle
    /\ bq = BqIdle
    /\ job = [id \in JobIds |-> NoJob]
    /\ run = [w \in Workers |-> IdleRun]
    /\ manualRetries = 0
    /\ lastAttempt = [e \in Events |-> NoAttempt]
    /\ evAttempts = [e \in Events |-> 0]
    /\ evFailedAttempts = [e \in Events |-> 0]
    /\ evThrown = [e \in Events |-> 0]
    /\ reinvoked = [e \in Events |-> {}]
    /\ everSucceeded = [e \in Events |-> {}]
    /\ requeued = [e \in Events |-> FALSE]
    /\ sx = SxIdle
    /\ fx = FxIdle
    /\ TrInit

\* The platform's API accepts the call: the sender does not raise.
SenderAccepted(w, c) ==
    /\ SenderResponse(w, c)
    /\ run'[w].snd[c] = "recording"

\* A request arrives (the run is bounded in how many do; the rate limit is
\* not reached).
E2EArrive(r) ==
    /\ Len(rlLog) + Cardinality(RlRunning) < MaxE2ESubmissions
    /\ Len(rlLog) + Cardinality(RlRunning) < RlLimit
    /\ TrackArrive(r)

\* The steps of checkRateLimit of a call that finds the count under the limit
\* (fewer requests arrive than the limit allows).
RlStepsAdmit(r) ==
    \/ RlZrem(r)
    \/ RlZcard(r)
    \/ RlZadd(r)
    \/ RlExpire(r)

NextE2E ==
    \/ \E r \in Callers : E2EArrive(r)
    \/ \E r \in Callers : RlStepsAdmit(r)
    \/ \E r \in Callers : Track(r)
    \/ \E w \in Workers, id \in JobIds : WPick(w, id)
    \/ \E w \in Workers : WMarkProcessing(w)
    \/ \E w \in Workers : WLoadAndFanOut(w)
    \/ \E w \in Workers, c \in ConfigIds : SenderAccepted(w, c)
    \/ \E w \in Workers, c \in ConfigIds : SenderRecord(w, c)
    \/ \E w \in Workers, c \in ConfigIds : SenderLog(w, c)
    \/ \E w \in Workers : WAllSettled(w)
    \/ \E w \in Workers : WMarkCompleted(w)

SpecE2E == InitE2E /\ [][NextE2E]_vars /\ WF_vars(NextE2E)

----------------------------------------------------------------------------
(* Specification of the event fingerprint: the endpoint computes the key of a
   submission, stores the event and a sender reads it; the key of another
   submission is computed elsewhere *)

InitEventId == EnvInit /\ DedupInit /\ RlInit /\ WkIdle /\ sx = SxIdle /\ TrIdle /\ GxInit

NextEventId ==
    \/ GxCall
    \/ GxCallOther
    \/ GxCreate
    \/ GxTikTokContentId

SpecEventId == InitEventId /\ [][NextEventId]_vars

\* The same two calls on inputs of one time bucket.
InitEventIdDistinct ==
    EnvInit /\ DedupInit /\ RlInit /\ WkIdle /\ sx = SxIdle /\ TrIdle /\ GxInitDistinct

NextEventIdDistinct ==
    \/ GxCall
    \/ GxCallOther

SpecEventIdDistinct == InitEventIdDistinct /\ [][NextEventIdDistinct]_vars

----------------------------------------------------------------------------
(* Specification of the webhook endpoint: webhooks arrive one after another,
   the record store may fail *)

InitWebhook == EnvInit /\ DedupInit /\ RlInit /\ WkIdle /\ sx = SxIdle /\ fx = FxIdle /\ TrInit

NextWebhook ==
    \/ \E input \in WebhookInputs : WhArrive(input)
    \/ WhVerify
    \/ WhParse
    \/ WhFindMerchant
    \/ WhSwitch

SpecWebhook == InitWebhook /\ [][NextWebhook]_vars

----------------------------------------------------------------------------
(* Specification of the browser tracker: the script is loaded, events are
   tracked, the interval fires, sends succeed or fail *)

InitTracker == EnvInit /\ DedupInit /\ RlInit /\ WkIdle /\ sx = SxIdle /\ fx = FxIdle /\ TrIdle

NextTracker ==
    \/ BqInit
    \/ BqTrack
    \/ BqProcess
    \/ BqFetchOk
    \/ BqFetchFail

SpecTracker == InitTracker /\ [][NextTracker]_vars

----------------------------------------------------------------------------
(* Specification of the outbound payloads: a sender builds the payload of an
   event and, elsewhere, that of another event *)

InitPayload == EnvInit /\ DedupInit /\ RlInit /\ WkIdle /\ sx = SxIdle /\ TrIdle /\ PxInit

NextPayload ==
    \/ PxSend
    \/ PxSendOther

SpecPayload == InitPayload /\ [][NextPayload]_vars

----------------------------------------------------------------------------
(* Specification of the event-name mapping: a sender maps the name of an
   event and writes it into the body of its request *)

InitMapping == EnvInit /\ DedupInit /\ RlInit /\ WkIdle /\ sx = SxIdle /\ TrIdle /\ MxInit

NextMapping ==
    \/ MxCall
    \/ MxStringify

SpecMapping == InitMapping /\ [][NextMapping]_vars

----------------------------------------------------------------------------
(* Properties of the duplicate suppressor (checked under SpecDedup) *)

DedupIdx == 1..Len(dedupLog)

\* The calls on fingerprint fp that the store answered.
DedupAnswered(fp) ==
    {i \in DedupIdx : dedupLog[i].fp = fp /\ ~dedupLog[i].threw
                      /\ dedupLog[i].res # "raised"}

DedupWindowMs == DefaultWindowSeconds * 1000

\* C1: among the calls with one fingerprint that the store answered, starting
\* from an absent key, the first is admitted (isDuplicate = false), and no two
\* calls less than a window apart are both admitted: of N concurrent calls
\* exactly one is admitted, whatever the order in which the store serves them.
C1_ExactlyOneAdmitted ==
    \A fp \in Fingerprints :
        LET A == DedupAnswered(fp) IN
        /\ A # {} => dedupLog[CHOOSE i \in A : \A j \in A : i <= j].res = "notdup"
        /\ \A i, j \in A :
              (i < j /\ dedupLog[j].t - dedupLog[i].t < DedupWindowMs)
                  => ~(dedupLog[i].res = "notdup" /\ dedupLog[j].res = "notdup")

\* Every caller had the same fingerprint on the wire at once, all were answered
\* at the same instant, and exactly one of them was admitted.
C1_Witness ==
    /\ Len(dedupLog) = NCallers
    /\ \A i \in DedupIdx :
          /\ dedupLog[i].fp = "f1" /\ dedupLog[i].t = 0 /\ ~dedupLog[i].threw
          /\ dedupLog[i].res = (IF i = 1 THEN "notdup" ELSE "dup")
    /\ dedupLog[1].conc

\* C9: a call the store answers observes a duplicate exactly when an earlier
\* answered call with the same fingerprint was admitted less than windowSeconds
\* before it: the key lives for the window of the winning call, duplicates do
\* not extend it, and after it has expired the next call is admitted again.
C9_DuplicateUntilExpiry ==
    \A fp \in Fingerprints : \A j \in DedupAnswered(fp) :
        (dedupLog[j].res = "dup")
            <=> \E i \in DedupAnswered(fp) :
                    /\ i < j
                    /\ dedupLog[i].res = "notdup"
                    /\ dedupLog[j].t - dedupLog[i].t < DedupWindowMs

\* A winner, a duplicate one second before the window ends, and a new winner
\* when the window of the first has elapsed.
C9_Witness ==
    /\ Len(dedupLog) = 3
    /\ \A i \in DedupIdx : dedupLog[i].fp = "f1" /\ ~dedupLog[i].threw
    /\ dedupLog[1].res = "notdup" /\ dedupLog[1].t = 0
    /\ dedupLog[2].res = "dup" /\ dedupLog[2].t = DedupWindowMs - 1000
    /\ dedupLog[3].res = "notdup" /\ dedupLog[3].t = DedupWindowMs

\* C10: a call whose store operation throws returns isDuplicate = false; it does
\* not raise and it does not report a duplicate.
C10_DedupFailsOpen ==
    \A i \in DedupIdx : dedupLog[i].threw => dedupLog[i].res = "notdup"

\* The store was unreachable for a call on a fingerprint whose key was live.
C10_Witness ==
    \E i, j \in DedupIdx :
        /\ i < j
        /\ dedupLog[i].fp = dedupLog[j].fp
        /\ dedupLog[i].res = "notdup" /\ ~dedupLog[i].threw
        /\ dedupLog[j].threw /\ dedupLog[j].t = dedupLog[i].t

----------------------------------------------------------------------------
(* Properties of the admission controller *)

RlIdx == 1..Len(rlLog)
RlWindowMs == RlWindow * 1000

\* The calls that were admitted by the count (not by failing open).
RlAdmitted == {i \in RlIdx : rlLog[i].allowed /\ ~rlLog[i].threw}

\* C7 (checked under SpecRate, concurrent callers): with the store reachable
\* throughout, no interval of length windowSeconds holds the timestamps of more
\* than limit admitted calls.
C7_WindowNeverExceedsLimit ==
    outages = 0 =>
        \A i \in RlAdmitted :
            Cardinality({j \in RlAdmitted :
                            /\ rlLog[i].t <= rlLog[j].t
                            /\ rlLog[j].t < rlLog[i].t + RlWindowMs}) <= RlLimit

\* The store has answered every call up to the j-th.
RlReachableUpTo(j) == \A i \in 1..j : ~rlLog[i].threw /\ ~rlLog[i].raised

\* C8 (checked under SpecRateSeq, calls one after the other): with the store
\* reachable, a call at time t is admitted iff fewer than limit earlier admitted
\* calls have a timestamp later than t - windowSeconds; and each admitted call
\* has recorded one marker: between calls, the markers the store holds inside
\* the window that ends now are one per admitted call inside that window.
C8_SlidingWindow ==
    /\ \A j \in RlIdx :
          RlReachableUpTo(j) =>
              (rlLog[j].allowed <=>
                  Cardinality({i \in 1..(j-1) :
                                 /\ rlLog[i].allowed
                                 /\ rlLog[i].t > rlLog[j].t - RlWindowMs}) < RlLimit)
    /\ (RlRunning = {} /\ RlReachableUpTo(Len(rlLog))) =>
          Cardinality({e \in RlLive(rlZset, rlKeyExpiry, now) :
                          e[1] > now - RlWindowMs}) =
              Cardinality({i \in RlIdx :
                              /\ rlLog[i].allowed
                              /\ rlLog[i].t > now - RlWindowMs})

\* C11 (checked under SpecRate): a call in which a store operation threw
\* (evict, count, read-oldest, add or expire) returns allowed = true with the
\* full limit remaining and does not raise, however many calls were admitted
\* before it.
C11_RateLimitFailsOpen ==
    \A i \in RlIdx :
        rlLog[i].threw =>
            /\ rlLog[i].allowed
            /\ ~rlLog[i].raised
            /\ rlLog[i].remaining = RlLimit

\* The store threw for a call made when limit calls had already been admitted
\* inside its window.
C11_Witness ==
    \E i \in RlIdx :
        /\ rlLog[i].threw
        /\ rlLog[i].allowed
        /\ Cardinality({j \in RlAdmitted :
                           j < i /\ rlLog[j].t > rlLog[i].t - RlWindowMs}) >= RlLimit

----------------------------------------------------------------------------
(* Properties of the delivery queue (checked under SpecQueue) *)

\* The jobs the queue holds for an event, and the workers running a job for it.
JobsOf(e) == {id \in JobIds : job[id].state # "none" /\ job[id].evt = e}
RunsOf(e) == {w \in Workers : run[w].job # "none" /\ run[w].ev = e}

\* C12: the job of an event has the event id as its id, so that however often
\* queueEvent is called for an event there is at most one job for it, and at
\* most one worker runs a job for it at any time (the one holding its active
\* job).
C12_OneJobPerEventId ==
    \A e \in Events :
        /\ \A id \in JobsOf(e) : id = e
        /\ Cardinality(JobsOf(e)) <= 1
        /\ Cardinality(RunsOf(e)) <= 1
        /\ Cardinality(RunsOf(e)) =
              Cardinality({id \in JobsOf(e) : job[id].state = "active"})

\* queueEvent was called again for e1 while its job was outstanding, and a
\* worker is running that job with its senders started.
C12_Witness ==
    /\ requeued["e1"]
    /\ job["e1"].state = "active"
    /\ \E w \in Workers : run[w].ev = "e1" /\ run[w].pc = "awaitSettled"

----------------------------------------------------------------------------
(* Properties of the dispatch worker (checked under SpecWorker) *)

Enabled(c) == pixelConfigs[c].isActive /\ pixelConfigs[c].conversionApiEnabled

\* C2: an attempt in which a sender raised does not set the event completed:
\* overall status completed implies that no sender raised in the attempt that
\* set it.
C2_CompletedImpliesNoSenderRaised ==
    \A e \in Events :
        (evStatus[e] = "completed" /\ lastAttempt[e].statusAfter = "completed")
            => lastAttempt[e].raised = {}

\* C3: an attempt in which a sender raised ends by incrementing the retry count
\* and re-raising; below the cap the queue schedules another attempt, at the
\* cap the event is marked failed.
C3_SenderFailureIsRetried ==
    \A e \in Events :
        LET a == lastAttempt[e] IN
        (a.n > 0 /\ a.raised # {}) =>
            /\ a.threw
            /\ a.rcAfter = a.rcBefore + 1
            /\ a.n < Attempts => a.jobAfter = "delayed"
            /\ a.n >= Attempts => a.statusAfter = "failed"

\* C4: no sender is invoked for an event whose status for that sender's
\* platform is already success.
C4_NoReinvokeAfterSuccess ==
    \A e \in Events : reinvoked[e] = {}

\* C5: within an attempt every active enabled config has its sender invoked,
\* whatever happens to the others; a sender that got past its status update has
\* the platform status success on the event, whether the other senders
\* succeeded, raised or are still in flight; and a recorded success stays.
C5_SendersIndependent ==
    /\ \A w \in Workers :
          run[w].pc = "awaitSettled" =>
              \A c \in ConfigIds : Enabled(c) => c \in Invoked(run[w])
    /\ \A w \in Workers : \A c \in ConfigIds :
          run[w].snd[c] \in {"logging", "done"} =>
              evPlatform[run[w].job][pixelConfigs[c].platform] = "success"
    /\ \A e \in Events :
          /\ \A c \in lastAttempt[e].succeeded :
                evPlatform[e][pixelConfigs[c].platform] = "success"
          /\ \A p \in everSucceeded[e] : evPlatform[e][p] = "success"

\* Sender c1 has succeeded and sender c2 has raised on the platform's answer,
\* in one attempt, and the event's facebook status is success.
C5_Witness ==
    \E w \in Workers :
        /\ run[w].pc = "awaitSettled"
        /\ run[w].snd["c1"] = "done"
        /\ run[w].snd["c2"] = "raised"
        /\ pixelConfigs["c2"].accessToken
        /\ evPlatform[run[w].job]["facebook"] = "success"
        /\ evPlatform[run[w].job]["tiktok"] = "null"

\* C6: when every attempt of a job has failed (a sender raised in it or the
\* processor threw), with no stall and no manual retry, the event is never
\* completed, it is failed exactly when 3 attempts have been made, no 4th
\* attempt is made, and its retry count is then 3.
C6_FailedAfterExactlyThreeAttempts ==
    \A e \in Events :
        (/\ manualRetries = 0
         /\ job[JobId(e)].stalled = 0
         /\ evAttempts[e] > 0
         /\ evFailedAttempts[e] = evAttempts[e])
        => /\ evStatus[e] # "completed"
           /\ evAttempts[e] <= Attempts
           /\ (evStatus[e] = "failed") <=> (evAttempts[e] = Attempts)
           /\ evStatus[e] = "failed" => evRetryCount[e] = Attempts

\* The sender invocations in flight for event e and platform p: a worker runs
\* a job for e and the sender of a config of platform p has not settled.
InFlightFor(e, p) ==
    {wc \in Workers \X ConfigIds :
        /\ run[wc[1]].job # "none"
        /\ run[wc[1]].ev = e
        /\ pixelConfigs[wc[2]].platform = p
        /\ run[wc[1]].snd[wc[2]] \in SndInFlight}

\* C13: for every event and platform at most one sender invocation is in
\* flight at any time, whatever the merchant's active configs are.
C13_OneInvocationInFlight ==
    \A e \in Events : \A p \in Platforms : Cardinality(InFlightFor(e, p)) <= 1

\* C14: once a platform status of an event is success, no step changes that
\* status or the platform's sent timestamp.
C14_SuccessIsStable ==
    [][\A e \in Events : \A p \in Platforms :
          evPlatform[e][p] = "success" =>
              /\ evPlatform'[e][p] = "success"
              /\ evSentAt'[e][p] = evSentAt[e][p]]_vars

\* The active, enabled configs without credential, and the active configs with
\* conversionApiEnabled = false.
NoCredential(c) == Enabled(c) /\ ~pixelConfigs[c].accessToken
Disabled(c) == pixelConfigs[c].isActive /\ ~pixelConfigs[c].conversionApiEnabled

\* The platforms to which some config of the merchant lets a request go out.
Sendable(p) ==
    \E c \in ConfigIds :
        Enabled(c) /\ pixelConfigs[c].accessToken /\ pixelConfigs[c].platform = p

\* C16: the sender of a config without credential raises at once: its request
\* is never on the wire and the platform status and sent timestamp stay as
\* they were; and an attempt whose only raised senders are those without
\* credential (no record-store error) does not throw, leaves the retry count
\* as it was and completes the job, so that the queue schedules no retry.
C16_MissingCredentialNotRetried ==
    /\ \A w \in Workers : \A c \in ConfigIds :
          (run[w].job # "none" /\ NoCredential(c)) => run[w].snd[c] \in {"none", "raised"}
    /\ \A e \in Events : \A p \in Platforms :
          ~Sendable(p) => evPlatform[e][p] = "null" /\ evSentAt[e][p] = NoSentAt
    /\ \A e \in Events :
          LET a == lastAttempt[e] IN
          (/\ a.n > 0
           /\ a.raised # {}
           /\ \A c \in a.raised : NoCredential(c)
           /\ ~a.dbThrew)
          => /\ ~a.threw
             /\ a.rcAfter = a.rcBefore
             /\ a.jobAfter = "completed"

\* An attempt ended in which the facebook sender raised for want of a token
\* while the tiktok sender succeeded: retry count 0, job completed.
C16_Witness ==
    LET a == lastAttempt["e1"] IN
    /\ a.n = 1
    /\ NoCredential("c1")
    /\ a.raised = {"c1"}
    /\ a.succeeded = {"c2"}
    /\ evRetryCount["e1"] = 0
    /\ job["e1"].state = "completed"
    /\ evPlatform["e1"]["facebook"] = "null"

\* C17: the sender of an active config with conversionApiEnabled = false is
\* never invoked and the status of a platform with no enabled config stays
\* null; an attempt for a merchant none of whose configs is active and enabled
\* (no record-store error) invokes no sender, marks the event completed and
\* leaves the retry count as it was.
C17_DisabledConfigSkipped ==
    /\ \A w \in Workers : \A c \in ConfigIds :
          (run[w].job # "none" /\ Disabled(c)) => run[w].snd[c] \in {"none", "skipped"}
    /\ \A e \in Events : \A p \in Platforms :
          (\A c \in ConfigIds : pixelConfigs[c].platform = p => ~Enabled(c))
              => evPlatform[e][p] = "null" /\ evSentAt[e][p] = NoSentAt
    /\ \A e \in Events :
          LET a == lastAttempt[e] IN
          (/\ a.n > 0
           /\ \A c \in ConfigIds : ~Enabled(c)
           /\ ~a.dbThrew)
          => /\ a.invoked = {}
             /\ ~a.threw
             /\ a.statusAfter = "completed"
             /\ a.rcAfter = a.rcBefore

\* An attempt ended for a merchant whose only active config is disabled: the
\* config was skipped, no sender was invoked, the event is completed.
C17_Witness ==
    LET a == lastAttempt["e1"] IN
    /\ a.n = 1
    /\ Disabled("c1")
    /\ a.skipped = {"c1"}
    /\ a.invoked = {}
    /\ evStatus["e1"] = "completed"
    /\ evRetryCount["e1"] = 0

\* C18: when a sender raised in the last finished attempt of an event (and no
\* sender of the same platform succeeded in it, and no later attempt is
\* running), the event's status for that platform is failed or pending.
C18_FailureRecordedPerPlatform ==
    \A e \in Events :
        LET a == lastAttempt[e] IN
        \A c \in a.raised :
            (/\ RunsOf(e) = {}
             /\ \A d \in a.succeeded :
                   pixelConfigs[d].platform # pixelConfigs[c].platform)
            => evPlatform[e][pixelConfigs[c].platform] \in {"failed", "pending"}

----------------------------------------------------------------------------
(* Properties of one sender invocation (checked under SpecSender) *)

\* The error indicators a platform puts into the body of a response.
BodyErrorIndicator(platform, body) ==
    CASE platform = "facebook" ->
            body.error \/ (body.events_received = 0 /\ body.messages)
      [] platform = "tiktok" -> body.code # 0
      [] OTHER -> FALSE

\* The invocation got a response of status 2xx whose body parsed and carries
\* the platform's error indicator.
AnsweredErrorIn2xx ==
    /\ sx.answered
    /\ sx.resp.fetched /\ sx.resp.ok /\ sx.resp.json
    /\ BodyErrorIndicator(sx.platform, sx.resp.body)

\* C15: a Facebook or TikTok sender that got a 2xx response whose body carries
\* an error indicator has raised, and has recorded neither the platform status
\* success nor an info audit-log entry.
C15_BodyErrorRaises ==
    AnsweredErrorIn2xx =>
        /\ sx.pc = "raised"
        /\ sx.status = "null"
        /\ sx.sentAt = NoSentAt
        /\ ~sx.logged

\* Facebook answered 200 with events_received = 0 and messages but no error
\* field, and the sender has raised.
C15_Witness ==
    /\ AnsweredErrorIn2xx
    /\ sx.platform = "facebook"
    /\ ~sx.resp.body.error
    /\ sx.resp.body.events_received = 0 /\ sx.resp.body.messages
    /\ sx.pc = "raised"

\* C25: the overall status of an event becomes completed or failed only from
\* processing, and once it is completed or failed no step changes it.
C25_StatusMovesForward ==
    [][\A e \in Events :
          /\ evStatus'[e] \in {"completed", "failed"} /\ evStatus'[e] # evStatus[e]
                => evStatus[e] = "processing"
          /\ evStatus[e] \in {"completed", "failed"} => evStatus'[e] = evStatus[e]]_vars

\* C26: an event with status processing is not left there: its job is being
\* run, or waits or is delayed for another attempt (a job that is failed or
\* completed is taken by no worker, so the status of its event stays).
C26_ProcessingHasAWayOut ==
    \A e \in Events : evStatus[e] = "processing" => Outstanding(e)

\* No worker is inside an attempt for event e.
AtRest(e) == \A w \in Workers : run[w].ev # e

\* C33: for every event the retry counter equals the number of attempts in
\* which the processor threw (between attempts, when the count is settled)
\* and never exceeds the attempt cap.
C33_RetryCountIsFailedAttempts ==
    \A e \in Events :
        /\ AtRest(e) => evRetryCount[e] = evThrown[e]
        /\ evRetryCount[e] <= Attempts

\* 5 s, 25 s, 125 s: the delay before the attempt that follows attemptsMade
\* failed ones.
ScheduleDelay(attemptsMade) == BackoffDelayMs * 5 ^ (attemptsMade - 1)

\* The scheduler releases a delayed job after the delay of the schedule.
DelaysFollowSchedule ==
    \A id \in JobIds :
        job[id].state = "delayed" /\ job'[id].state = "waiting" =>
            now' - now = ScheduleDelay(job[id].attemptsMade)

\* The processor is called at most `attempts` times for an event.
AtMostThreeAttempts == \A e \in Events : evAttempts[e] <= Attempts

\* C28: a failed job waits in the queue, not in the worker, for 5 s, 25 s,
\* 125 s before its successive attempts, and is attempted at most 3 times.
C28_BackoffSchedule ==
    /\ [][DelaysFollowSchedule]_vars
    /\ []AtMostThreeAttempts

\* A worker process that received the signal takes no job it did not have.
TakesNoNewJob ==
    \A w \in Workers :
        wproc[w] # "running" => run'[w].job \in {run[w].job, "none"}

\* A closed or exited process has no job in flight, and every active job is
\* in the hands of a process that is still there to finish it.
InFlightFinishFirst ==
    /\ \A w \in Workers : wproc[w] \in {"closed", "exited"} => run[w] = IdleRun
    /\ \A id \in JobIds :
           job[id].state = "active" =>
               \E w \in Workers : run[w].job = id /\ wproc[w] \in {"running", "closing"}

\* C27: after SIGTERM or SIGINT the worker takes no new job, the jobs in
\* flight finish before the connection is closed and the process exits, and
\* the process does exit.
C27_GracefulShutdown ==
    /\ [][TakesNoNewJob]_vars
    /\ []InFlightFinishFirst
    /\ \A w \in Workers : (wproc[w] = "closing") ~> (wproc[w] = "exited")

\* A process that was signalled mid-job has exited, its job has been handed
\* back to the queue for another attempt and waits there.
C27_Witness ==
    \E w \in Workers :
        /\ wproc[w] = "exited"
        /\ heldAtSignal[w] # "none"
        /\ job[heldAtSignal[w]].state = "waiting"

----------------------------------------------------------------------------
(* Properties of the ingestion endpoint (checked under SpecTrack) *)

\* The submissions so far: the answered ones and the ones a handler is at.
Submissions ==
    trLog \cup {[input |-> tr[r].input, resp |-> NoResp, effects |-> tr[r].effects,
                 ev |-> tr[r].ev] : r \in {q \in Callers : tr[q].pc # "idle"}}

Rejections == {"rateLimited", "invalid", "noMerchant", "unknownMerchant", "quota"}

\* Every record, claimed dedup key, job and unit of the monthly count is the
\* effect of one submission.
EffectsAccounted ==
    /\ {e \in Events : evStatus[e] # "absent"} =
           {x.ev : x \in {y \in Submissions : "record" \in y.effects}}
    /\ {f \in Fingerprints : dedupKeys[f] # 0} =
           {x.input.eventId : x \in {y \in Submissions : "dedupKey" \in y.effects}}
    /\ {e \in Events : job[JobId(e)].state # "none"} =
           {x.ev : x \in {y \in Submissions : "job" \in y.effects}}
    /\ monthlyEventCount =
           Cardinality({x.ev : x \in {y \in Submissions : "count" \in y.effects}})

\* C20: a submission the endpoint rejects - rate-limited (429 with the reset
\* time the limiter returned), malformed (400), without or with an unknown
\* merchant (400, 404), or over the monthly quota (429) - has created no event
\* record, claimed no dedup key, enqueued no job and not changed the monthly
\* event count; a submission whose body is not a valid event is never queued.
C20_RejectedHasNoEffect ==
    /\ EffectsAccounted
    /\ \A x \in trLog :
        /\ x.resp.kind \in Rejections => x.effects = {} /\ x.ev = "none"
        /\ x.resp.kind = "rateLimited" =>
              /\ x.resp.status = 429
              /\ \E i \in 1..Len(rlLog) :
                    ~rlLog[i].allowed /\ rlLog[i].resetAt = x.resp.resetAt
        /\ x.resp.kind \in {"invalid", "noMerchant"} => x.resp.status = 400
        /\ x.resp.kind = "unknownMerchant" => x.resp.status = 404
        /\ x.resp.kind = "quota" => x.resp.status = 429
        /\ x.input.body = "invalid" => x.resp.kind = "invalid"
        /\ x.input.body # "event" => x.effects = {}
    /\ \A r \in Callers : tr[r].pc # "idle" => tr[r].input.body = "event"

\* A submission was accepted and counted, a later one was rejected for the
\* quota and another by the rate limiter.
C20_Witness ==
    /\ \E x \in trLog : x.resp.kind = "accepted"
    /\ \E x \in trLog : x.resp.kind = "quota"
    /\ \E x \in trLog : x.resp.kind = "rateLimited" /\ x.resp.resetAt > 0
    /\ monthlyEventCount = 1

\* The handler of request r returns from checkDuplication in this step, having
\* sent its SET while the key of its fingerprint was live.
FindsClaimed(r) ==
    /\ tr[r].pc = "checkDuplication"
    /\ tr'[r].pc # "checkDuplication"
    /\ ~GetRedisThrows /\ redisUp
    /\ KeyLive(dedupKeys, tr[r].input.eventId, now)

\* C21: a submission that finds its fingerprint claimed (the key is live when
\* its SET is executed) is answered 200 with the duplicate flag, and the step
\* creates no event record, enqueues no job, leaves the monthly event count and
\* the dedup keys as they are; no answered duplicate has any effect to its
\* account.
C21_DuplicateIsIdempotentSuccess ==
    /\ [](EffectsAccounted /\
          \A x \in trLog : x.resp.kind = "duplicate" =>
              x.resp.status = 200 /\ x.effects = {} /\ x.ev = "none")
    /\ [][\A r \in Callers : FindsClaimed(r) =>
             /\ tr'[r] = TrIdleRec
             /\ [input |-> tr[r].input,
                 resp |-> [Resp(200, "duplicate") EXCEPT !.ev = tr[r].input.eventId],
                 effects |-> {}, ev |-> "none"] \in trLog'
             /\ UNCHANGED <<evStatus, evEventId, job, monthlyEventCount,
                            dedupKeys>>]_vars

\* A submission was accepted and a later one with the same fingerprint was
\* answered as a duplicate; there is one record and the count is one.
C21_Witness ==
    /\ \E x, y \in trLog :
          /\ x.resp.kind = "accepted" /\ y.resp.kind = "duplicate"
          /\ x.input.eventId = y.input.eventId
    /\ Cardinality({e \in Events : evStatus[e] # "absent"}) = 1
    /\ monthlyEventCount = 1

----------------------------------------------------------------------------
(* Properties of the whole pipeline (checked under SpecE2E) *)

\* The answered submissions that were accepted with event e.
AcceptedWith(e) == {x \in trLog : x.resp.kind = "accepted" /\ x.ev = e}

\* The one submission made so far was a valid event for the existing merchant
\* and has been answered.
AloneAndValid(x) ==
    /\ Len(rlLog) = 1 /\ RlRunning = {}
    /\ trLog = {x}
    /\ x.input.body = "event" /\ x.input.merchantId = "m1"

\* Event e is delivered: completed, the platform of the merchant's config has
\* status success, after one attempt that invoked the sender of that config.
Delivered(e) ==
    /\ evStatus[e] = "completed"
    /\ evPlatform[e][pixelConfigs["c1"].platform] = "success"
    /\ job[JobId(e)].state = "completed"
    /\ evAttempts[e] = 1
    /\ lastAttempt[e].invoked = {"c1"}
    /\ lastAttempt[e].succeeded = {"c1"}

E2ESafe ==
    /\ \A x \in trLog : AloneAndValid(x) => x.resp.kind = "accepted" /\ x.resp.status = 202
    /\ \A e, f \in Events :
          evStatus[e] # "absent" /\ evStatus[f] # "absent" /\ evEventId[e] = evEventId[f]
              => e = f
    /\ \A e \in Events :
          /\ Cardinality(AcceptedWith(e)) <= 1
          /\ \A x \in AcceptedWith(e) :
                /\ evStatus[e] # "absent" /\ evEventId[e] = x.input.eventId
                /\ JobsOf(e) = {JobId(e)}
                /\ job[JobId(e)].state = "waiting" => evStatus[e] = "pending"
          /\ Cardinality(RunsOf(e)) + evAttempts[e] <= 1
          /\ \A w \in RunsOf(e) : Invoked(run[w]) \subseteq {"c1"}
          /\ evAttempts[e] = 1 => lastAttempt[e].invoked = {"c1"}

\* C19: on the good path a valid submission for the existing merchant, made
\* alone, is accepted (202); an accepted submission has exactly one event
\* record (created with status pending) and exactly one job, its event is
\* attempted once with one sender invocation, and eventually the event has
\* status completed and the platform's status is success.
C19_EndToEnd ==
    /\ []E2ESafe
    /\ \A e \in Events : (AcceptedWith(e) # {}) ~> Delivered(e)
    /\ \A r \in Callers : (rlPc[r] # "idle" \/ tr[r].pc # "idle") ~>
                              (rlPc[r] = "idle" /\ tr[r].pc = "idle")

\* An accepted submission's event has been delivered.
C19_Witness ==
    \E e \in Events :
        /\ AcceptedWith(e) # {}
        /\ \A x \in AcceptedWith(e) : x.input.body = "event" /\ x.input.merchantId = "m1"
        /\ Delivered(e)
        /\ evSentAt[e][pixelConfigs["c1"].platform] # NoSentAt

----------------------------------------------------------------------------
(* Properties of the event fingerprint (checked under SpecEventId) *)

\* The number of the time bucket of a timestamp: floor(timestamp / 5000)
Bucket(timestamp) == timestamp \div BucketMs

\* Two parameter objects agree in every field but the timestamp and contentIds.
SameButTimeAndContent(a, b) ==
    /\ a.merchantId = b.merchantId /\ a.eventName = b.eventName
    /\ a.userId = b.userId /\ a.orderId = b.orderId /\ a.value = b.value

BothKeys == fx.fn = "generateEventId" /\ fx.key # Undef /\ fx.otherKey # Undef

\* C22: two generateEventId computations on equal (merchantId, eventName,
\* userId, orderId, value, contentIds) whose timestamps have the same
\* floor(timestamp / 5000) return the same key, whichever call computed it and
\* whether or not the arguments went through a call before; so two keys differ
\* only when the bucket or a field differs.
C22_SameBucketSameKey ==
    BothKeys =>
        /\ ( /\ SameButTimeAndContent(fx.submitted, fx.otherSubmitted)
             /\ fx.submitted.contentIds = fx.otherSubmitted.contentIds
             /\ Bucket(fx.submitted.timestamp) = Bucket(fx.otherSubmitted.timestamp) )
              => fx.key = fx.otherKey
        /\ generateEventId(fx.params) = fx.key

\* Two computations at different timestamps of one bucket on equal fields, with
\* content ids, gave the same key.
C22_Witness ==
    /\ BothKeys
    /\ SameButTimeAndContent(fx.submitted, fx.otherSubmitted)
    /\ fx.submitted.contentIds = fx.otherSubmitted.contentIds
    /\ fx.submitted.contentIds # Undef /\ fx.submitted.contentIds # <<>>
    /\ fx.submitted.timestamp # fx.otherSubmitted.timestamp
    /\ Bucket(fx.submitted.timestamp) = Bucket(fx.otherSubmitted.timestamp)
    /\ fx.key = fx.otherKey

\* The number of times x occurs in the list.
Occurrences(x, list) == Cardinality({i \in 1..Len(list) : list[i] = x})

\* b is a permutation of a.
IsPermutation(a, b) ==
    /\ Len(a) = Len(b)
    /\ \A i \in 1..Len(a) : Occurrences(a[i], a) = Occurrences(a[i], b)

\* C23: generateEventId does not depend on the order of contentIds: on equal
\* other fields, two contentIds lists that are permutations of each other
\* give the same key.
C23_ContentIdsOrderIndependent ==
    ( /\ BothKeys
      /\ SameButTimeAndContent(fx.submitted, fx.otherSubmitted)
      /\ fx.submitted.timestamp = fx.otherSubmitted.timestamp
      /\ fx.submitted.contentIds # Undef /\ fx.otherSubmitted.contentIds # Undef
      /\ IsPermutation(fx.submitted.contentIds, fx.otherSubmitted.contentIds) )
        => fx.key = fx.otherKey

\* Two lists in different order, one of them not sorted, gave the same key.
C23_Witness ==
    /\ BothKeys
    /\ SameButTimeAndContent(fx.submitted, fx.otherSubmitted)
    /\ fx.submitted.timestamp = fx.otherSubmitted.timestamp
    /\ fx.submitted.contentIds # Undef /\ fx.otherSubmitted.contentIds # Undef
    /\ Len(fx.submitted.contentIds) = 3
    /\ fx.submitted.contentIds # fx.otherSubmitted.contentIds
    /\ IsPermutation(fx.submitted.contentIds, fx.otherSubmitted.contentIds)
    /\ fx.key = fx.otherKey

\* C24: generateEventId leaves its argument as it was: after the call the
\* caller's contentIds are in the submitted order, the event record stores
\* them in that order and the content id sent to TikTok is the first one
\* submitted.
C24_ArgumentsUnchanged ==
    fx.fn = "generateEventId" =>
        /\ fx.params = fx.submitted
        /\ fx.pc \in {"created", "sent"} =>
              fx.stored = OrEmptyArray(fx.submitted.contentIds)
        /\ fx.pc = "sent" /\ fx.stored # <<>> =>
              fx.contentId = fx.submitted.contentIds[1]

----------------------------------------------------------------------------
(* Properties of the outbound payloads (checked under SpecPayload) *)

HashedEmailOf(payload) ==
    IF payload.platform = "facebook" THEN payload.user_data.em ELSE payload.user.email

HashedPhoneOf(payload) ==
    IF payload.platform = "facebook" THEN payload.user_data.ph
    ELSE payload.user.phone_number

\* The payload without its two hashed fields.
RestOf(payload) ==
    IF payload.platform = "facebook"
    THEN [payload EXCEPT !.user_data.em = Undef, !.user_data.ph = Undef]
    ELSE [payload EXCEPT !.user.email = Undef, !.user.phone_number = Undef]

\* Absent, or a digest, or the '' that hashPhone gives a phone without digits.
DigestOrAbsent(v) == v = Undef \/ v = <<>> \/ v[1] = "sha256"

BothPayloads == fx.fn = "payload" /\ fx.sent /\ fx.otherSent

\* C29: the email and the phone of an event reach the payload only as
\* digests: the two identity fields hold a digest or nothing and never the
\* raw value, the rest of the payload is the same whatever the email and
\* the phone are, and two phones with the same digits give the same field.
C29_OnlyHashesLeave ==
    /\ (fx.fn = "payload" /\ fx.sent) =>
           /\ DigestOrAbsent(HashedEmailOf(fx.payload))
           /\ DigestOrAbsent(HashedPhoneOf(fx.payload))
           /\ Truthy(fx.event.email) => (HashedEmailOf(fx.payload) # fx.event.email)
           /\ Truthy(fx.event.phone) => (HashedPhoneOf(fx.payload) # fx.event.phone)
    /\ BothPayloads =>
           /\ ([fx.event EXCEPT !.email = Null, !.phone = Null]
                  = [fx.other EXCEPT !.email = Null, !.phone = Null])
               => (RestOf(fx.payload) = RestOf(fx.otherPayload))
           /\ ( /\ Truthy(fx.event.phone) /\ Truthy(fx.other.phone)
                /\ RemoveNonDigits(fx.event.phone) = RemoveNonDigits(fx.other.phone) )
               => (HashedPhoneOf(fx.payload) = HashedPhoneOf(fx.otherPayload))

\* Two events whose phones are written differently with the same digits
\* have been sent, with the same digest.
C29_Witness ==
    /\ BothPayloads
    /\ fx.event.phone # fx.other.phone
    /\ Truthy(fx.event.phone) /\ Truthy(fx.other.phone)
    /\ RemoveNonDigits(fx.event.phone) = RemoveNonDigits(fx.other.phone)
    /\ RemoveNonDigits(fx.event.phone) # <<>>
    /\ Truthy(fx.event.email)
    /\ HashedPhoneOf(fx.payload) = HashedPhoneOf(fx.otherPayload)
    /\ HashedPhoneOf(fx.payload)[1] = "sha256"

----------------------------------------------------------------------------
(* Properties of the event-name mapping (checked under SpecMapping) *)

TableOf(platform) ==
    CASE platform = "facebook" -> FACEBOOK_EVENT_MAP
      [] platform = "tiktok" -> TIKTOK_EVENT_MAP
      [] platform = "google" -> GA4_EVENT_MAP

Mapped == fx.fn = "mapEventName" /\ fx.pc \in {"mapped", "sent"}

\* A standard kind is mapped to the entry of the platform's table.
StandardKindsByTable ==
    Mapped /\ fx.standardName \in StandardEventNames =>
        fx.name = JsString(TableOf(fx.platform)[fx.standardName])

----------------------------------------------------------------------------
(* Properties of the webhook endpoint (checked under SpecWebhook) *)

\* The record store, the queue and the merchant are as they were at the start.
WhNothingChanged ==
    /\ \A e \in Events : evStatus[e] = "absent" /\ job[JobId(e)] = NoJob
    /\ monthlyEventCount = 0

\* The request carried a signature that verifies against the configured secret.
WhVerified(input) == input.signature = "valid" /\ input.secret

\* C31: a correctly signed webhook that reports a successful payment of a
\* known merchant, once answered, has created one tracking event with status
\* pending and enqueued one job for it.
C31_PaymentIsTracked ==
    \A x \in wh.log :
        /\ x.input.signature = "valid" /\ x.input.secret
        /\ x.input.event \in {"payment.succeeded", "payment_succeeded"}
        /\ x.input.user = "m1"
        /\ x.status # 500
        => /\ x.effects = {"record", "job"}
           /\ x.ev \in Events
           /\ evStatus[x.ev] # "absent"
           /\ job[JobId(x.ev)].state # "none"

\* C32: a webhook without a signature, or with one that does not verify, is
\* answered 401 and has no effect; whatever has an effect carried a
\* signature that verifies against the configured secret.
C32_SignatureFirst ==
    /\ \A x \in wh.log :
           /\ x.input.signature = "none" => x.status = 401 /\ x.effects = {}
           /\ x.input.signature = "invalid" /\ x.input.secret
                  => x.status = 401 /\ x.effects = {}
           /\ x.effects # {} => x.input.signature = "valid" /\ x.input.secret
    /\ wh.pc \notin {"idle", "verify"} => WhVerified(wh.input)
    /\ (\A x \in wh.log : ~WhVerified(x.input)) /\ wh.pc \in {"idle", "verify"}
           => WhNothingChanged

\* A webhook with a bad signature was answered, and one with a good
\* signature went on to the merchant lookup.
C32_Witness ==
    /\ \E x \in wh.log : x.input.signature = "invalid" /\ x.input.secret /\ x.status = 401
    /\ wh.pc = "switch"

----------------------------------------------------------------------------
(* Further properties of the ingestion endpoint (checked under SpecTrack) *)

\* An event record with fingerprint fp exists and a job was enqueued for it.
CreatedAndQueued(fp) ==
    \E e \in Events :
        /\ evEventId[e] = fp
        /\ evStatus[e] # "absent"
        /\ job[JobId(e)].state # "none"

\* C34: a submission is answered as duplicate only when an event record with
\* its fingerprint has been created and queued.
C34_DuplicateOfAnEvent ==
    \A x \in trLog :
        x.resp.kind = "duplicate" => CreatedAndQueued(x.input.eventId)

\* A handler that created event e has not returned yet.
BeingIngested(e) == \E r \in Callers : tr[r].pc # "idle" /\ tr[r].ev = e

\* C35: an event record that the endpoint created and whose handler has
\* returned has status pending only while a job for it is outstanding.
C35_CreatedHasAJob ==
    \A e \in Events :
        evStatus[e] = "pending" /\ ~BeingIngested(e) => Outstanding(e)

\* The submissions that were answered 202, and those whose handler has counted
\* its event and not yet answered.
TrAccepted == {x \in trLog : x.resp.status = 202}
TrCounting == {r \in Callers : tr[r].pc = "queueEvent"}

\* C38: with a finite monthlyEventLimit, monthlyEventCount never exceeds the
\* limit however concurrent submissions interleave: a submission is accepted
\* only when the count it read was below the limit, and it has incremented the
\* count.
C38_QuotaNeverExceeded ==
    monthlyEventLimit # Unlimited =>
        /\ monthlyEventCount <= monthlyEventLimit
        /\ \A x \in TrAccepted : "count" \in x.effects
        /\ \A r \in TrCounting : tr[r].count < monthlyEventLimit

----------------------------------------------------------------------------
(* Further properties of the event key (checked under SpecEventIdDistinct) *)

\* The content ids of a call as a set.
ContentIdSet(params) ==
    {OrEmptyArray(params.contentIds)[i] :
        i \in 1..Len(OrEmptyArray(params.contentIds))}

\* Two calls differ in a field other than the timestamp.
DifferentEvents(a, b) ==
    \/ a.merchantId # b.merchantId
    \/ a.eventName # b.eventName
    \/ a.userId # b.userId
    \/ a.orderId # b.orderId
    \/ a.value # b.value
    \/ ContentIdSet(a) # ContentIdSet(b)

\* C39: within one 5-second bucket, two calls that differ in merchantId,
\* eventName, userId, orderId, value or the set of contentIds have different
\* strings to hash and different keys.
C39_DifferentEventsDifferentKeys ==
    ( /\ BothKeys
      /\ Bucket(fx.submitted.timestamp) = Bucket(fx.otherSubmitted.timestamp)
      /\ DifferentEvents(fx.submitted, fx.otherSubmitted) )
        => /\ DataString(fx.submitted) # DataString(fx.otherSubmitted)
           /\ fx.key # fx.otherKey

----------------------------------------------------------------------------
(* Further properties of a sender invocation (checked under SpecSender) *)

\* The body carries what the platform uses to report an error.
ErrorIndicator(platform, body) ==
    CASE platform = "facebook" ->
             body.error \/ (body.events_received = 0 /\ body.messages)
      [] platform = "tiktok" -> body.code # 0
      [] OTHER -> FALSE

\* C36: a sender records success only after a response with a 2xx status
\* whose body carries no error indicator.
C36_SuccessNeedsHttpOk ==
    sx.status = "success" =>
        /\ sx.resp.fetched /\ sx.resp.ok
        /\ ~ErrorIndicator(sx.platform, sx.resp.body)

----------------------------------------------------------------------------
(* Further properties of the admission controller (checked under SpecRateSeq) *)

\* The admitted calls before the j-th whose timestamp is inside its window.
RlMarkersBefore(j) ==
    {i \in 1..(j-1) : rlLog[i].allowed /\ rlLog[i].t > rlLog[j].t - RlWindowMs}

\* The earliest of a non-empty set of calls of the log.
RlOldestOf(S) == CHOOSE i \in S : \A k \in S : rlLog[i].t <= rlLog[k].t

\* A call the store answered with a rejection, and one it answered by the count.
RlRejected == {j \in RlIdx : ~rlLog[j].allowed /\ ~rlLog[j].threw /\ ~rlLog[j].raised}

\* C37: with the store reachable, a call rejected at time t returns remaining 0
\* and a resetAt later than t, the timestamp of the oldest marker of its window
\* plus the window length; it records no marker, and a call at resetAt with no
\* admission in between is admitted. An admitted call returns
\* remaining = limit - (markers in the window before the call) - 1 >= 0.
C37_RejectionAndAdmissionNumbers ==
    \A j \in RlIdx :
        RlReachableUpTo(j) =>
            /\ j \in RlRejected =>
                  /\ rlLog[j].remaining = 0
                  /\ rlLog[j].resetAt > rlLog[j].t
                  /\ RlMarkersBefore(j) # {}
                  /\ rlLog[j].resetAt =
                        rlLog[RlOldestOf(RlMarkersBefore(j))].t + RlWindowMs
            /\ (\E k \in RlRejected :
                    /\ k < j
                    /\ rlLog[j].t = rlLog[k].resetAt
                    /\ \A m \in (k+1)..(j-1) : ~rlLog[m].allowed)
                  => rlLog[j].allowed
            /\ j \in RlAdmitted =>
                  /\ rlLog[j].remaining =
                        RlLimit - Cardinality(RlMarkersBefore(j)) - 1
                  /\ rlLog[j].remaining >= 0

----------------------------------------------------------------------------
(* Properties of the browser tracker (checked under SpecTracker) *)

\* C40: process() re-sends a queued event at most retryAttempts times: the
\* stored attempt count of an event is the number of its re-sends, and an event
\* whose retry succeeded is no longer in the queue.
C40_RetriesAreCapped ==
    bq.pc = "loaded" =>
        /\ \A ts \in Timestamps : bq.resends[ts] <= retryAttempts
        /\ \A i \in 1..Len(bq.store) :
              /\ bq.store[i].attempts = bq.resends[bq.store[i].ts]
              /\ bq.store[i].ts \notin bq.delivered

============================================================================
